---- MODULE Spec2Model ----
(***************************************************************************)
(* A model of the synthizer interpreter front end:                         *)
(*   - the TypeTable scope stack (interpreter/types.rs), specification     *)
(*     Spec;                                                               *)
(*   - the expression engine: to_expr_tokens, shunting_yard and eval_rpn   *)
(*     (interpreter/expr.rs), specification SpecExpr;                      *)
(*   - the lexer (interpreter/lexer.rs), specification SpecLex;            *)
(*   - the parsers of function definitions and statements                  *)
(*     (interpreter/functiondef.rs), specification SpecParse.              *)
(***************************************************************************)
EXTENDS Integers, Sequences, FiniteSets, TLC

(***************************************************************************)
(* f32 values (IEEE 754 binary32, round to nearest, ties to even).         *)
(* A value is a record: kind "fin" is (-1)^s * m * 2^e with m odd, or      *)
(* m = 0 and e = 0 for the two zeros; "inf" is (-1)^s * infinity; "nan" is *)
(* a NaN, quiet when m = 0 and signalling when m = 1 (sign and payload are *)
(* left out); arithmetic on a NaN gives a quiet NaN, negation and abs keep *)
(* it. A finite value has m < 2^24, e >= -149 and m * 2^e < 2^128.         *)
(* Kind "approx" stands for a result of powf that is not an exact power,   *)
(* is the inverse of an exact power other than a power of two, or is an    *)
(* exact power half way between two floats: the float the libm             *)
(* returns for it is not fixed by the source (it may be any float, 1.0 and *)
(* 0.0 included), and an operation on it gives it back.                    *)
(***************************************************************************)
Fin(s, m, e) == [k |-> "fin", s |-> s, m |-> m, e |-> e]
Inf(s) == [k |-> "inf", s |-> s, m |-> 0, e |-> 0]
NaN == [k |-> "nan", s |-> 0, m |-> 0, e |-> 0]
SNaN == [k |-> "nan", s |-> 0, m |-> 1, e |-> 0]
Approx == [k |-> "approx", s |-> 0, m |-> 0, e |-> 0]
Zero == Fin(0, 0, 0)

\* f32::MANTISSA_DIGITS, the exponent of the smallest subnormal, and the
\* exponent no finite value reaches
MantissaDigits == 24
MinExp == -149
MaxExp == 128

\* the number of binary digits of n
RECURSIVE BitLen(_)
BitLen(n) == IF n = 0 THEN 0 ELSE 1 + BitLen(n \div 2)

\* (-1)^s * m * 2^e with the mantissa made odd
RECURSIVE Canon(_, _, _)
Canon(s, m, e) ==
    IF m = 0 THEN Fin(s, 0, 0)
    ELSE IF m % 2 = 0 THEN Canon(s, m \div 2, e + 1)
    ELSE Fin(s, m, e)

\* The f32 nearest to (-1)^s * (M + t) * 2^E, where 0 < t < 1 when sticky
\* and t = 0 otherwise; M has at least 26 digits when sticky. L is the number
\* of digits of M, q the exponent of the last digit kept, d the number of
\* digits dropped. A magnitude of 2^128 or more is an infinity.
Round(s, M, E, sticky) ==
    LET Finite(m, e, len) == IF len + e > MaxExp THEN Inf(s) ELSE Canon(s, m, e)
        RoundedTo(L, d, q) ==
            IF d <= 0 THEN Finite(M, q - d, L)
            ELSE IF d > L THEN Fin(s, 0, 0)
            ELSE LET half == 2^(d - 1)
                     kept == (M \div half) \div 2
                     up == /\ (M \div half) % 2 = 1
                           /\ ((M % half) > 0 \/ sticky \/ (kept % 2) = 1)
                     r == IF up THEN kept + 1 ELSE kept
                 IN  Finite(r, q, IF r = 2^(L - d) THEN L - d + 1 ELSE L - d)
        Last(L) == IF E + L - MantissaDigits > MinExp THEN E + L - MantissaDigits ELSE MinExp
        RoundLen(L) == RoundedTo(L, Last(L) - E, Last(L))
    IN  RoundLen(BitLen(M))

\* the whole number n as f32
F32(n) == Round(IF n < 0 THEN 1 ELSE 0, IF n < 0 THEN -n ELSE n, 0, FALSE)

\* a finite value with its mantissa scaled to 30 digits
Scaled(x) ==
    LET ScaledLen(L) == [m |-> x.m * 2^(30 - L), e |-> x.e - (30 - L)]
    IN  ScaledLen(BitLen(x.m))

\* a + b. AddScaled is big + small and big - small for magnitudes
\* big >= small scaled to 30 digits, the result taking the sign s of big.
AddF(a, b) ==
    LET AddScaled(s, same, big, ms, sticky) ==
            IF same THEN Round(s, big.m + ms, big.e, sticky)
            ELSE IF sticky THEN Round(s, big.m - ms - 1, big.e, TRUE)
            ELSE IF big.m = ms THEN Zero
            ELSE Round(s, big.m - ms, big.e, FALSE)
        AddAligned(s, big, sml, d) ==
            AddScaled(s, a.s = b.s, big,
                      IF d >= 30 THEN 0 ELSE sml.m \div 2^d,
                      IF d >= 30 THEN TRUE ELSE (sml.m % 2^d) # 0)
        AddOrdered(A, B) ==
            IF B.e > A.e \/ (B.e = A.e /\ B.m > A.m)
            THEN AddAligned(b.s, B, A, B.e - A.e)
            ELSE AddAligned(a.s, A, B, A.e - B.e)
    IN  IF a.k = "nan" \/ b.k = "nan" THEN NaN
        ELSE IF a.k = "approx" \/ b.k = "approx" THEN Approx
        ELSE IF a.k = "inf" THEN (IF b.k = "inf" /\ b.s # a.s THEN NaN ELSE a)
        ELSE IF b.k = "inf" THEN b
        ELSE IF a.m = 0 /\ b.m = 0 THEN Fin(IF a.s = 1 /\ b.s = 1 THEN 1 ELSE 0, 0, 0)
        ELSE IF a.m = 0 THEN b
        ELSE IF b.m = 0 THEN a
        ELSE AddOrdered(Scaled(a), Scaled(b))

\* -a
NegF(a) == IF a.k \in {"nan", "approx"} THEN a ELSE [a EXCEPT !.s = 1 - a.s]
\* a.abs()
AbsF(a) == IF a.k \in {"nan", "approx"} THEN a ELSE [a EXCEPT !.s = 0]
\* a - b
SubF(a, b) == AddF(a, NegF(b))

\* a * b. The product of two mantissas too long for one multiplication is
\* taken from their 12-digit halves: hi * 2^24 + low, cut to 30 digits.
MulF(a, b) ==
    LET s == (a.s + b.s) % 2
        MulCut(hi, low, k) ==
            Round(s, hi * 2^(24 - k) + (low \div 2^k), a.e + b.e + k, (low % 2^k) # 0)
        MulMid(hi, mid, R) ==
            MulCut(hi + (mid \div 4096), (mid % 4096) * 4096 + (R % 4096),
                   BitLen(hi + (mid \div 4096)) - 6)
        MulParts(P, Q, R) == MulMid(P + (Q \div 4096), (Q % 4096) + (R \div 4096), R)
        MulHalves(ah, al, bh, bl) == MulParts(ah * bh, ah * bl + al * bh, al * bl)
    IN  IF a.k = "nan" \/ b.k = "nan" THEN NaN
        ELSE IF a.k = "approx" \/ b.k = "approx" THEN Approx
        ELSE IF a.k = "inf" \/ b.k = "inf"
        THEN (IF (a.k = "fin" /\ a.m = 0) \/ (b.k = "fin" /\ b.m = 0) THEN NaN ELSE Inf(s))
        ELSE IF a.m = 0 \/ b.m = 0 THEN Fin(s, 0, 0)
        ELSE IF a.m <= 1073741824 \div b.m THEN Round(s, a.m * b.m, a.e + b.e, FALSE)
        ELSE MulHalves(a.m \div 4096, a.m % 4096, b.m \div 4096, b.m % 4096)

\* a / b for magnitudes that are not zero, with the sign s: the mantissas are
\* scaled to 30 digits and the quotient is taken to 28 more digits. LongDiv
\* gives n more digits of the quotient q with remainder r of a division by d.
DivFin(s, a, b) ==
    LET RECURSIVE LongDiv(_, _, _, _)
        LongDiv(q, r, d, n) ==
            IF n = 0 THEN [q |-> q, r |-> r]
            ELSE IF 2 * r >= d THEN LongDiv(2 * q + 1, 2 * r - d, d, n - 1)
            ELSE LongDiv(2 * q, 2 * r, d, n - 1)
        DivRounded(qr, E) == Round(s, qr.q, E, qr.r # 0)
        DivScaled(A, B) ==
            DivRounded(LongDiv(A.m \div B.m, A.m % B.m, B.m, 28), A.e - B.e - 28)
    IN  IF (a.m % b.m) = 0 THEN Round(s, a.m \div b.m, a.e - b.e, FALSE)
        ELSE DivScaled(Scaled(a), Scaled(b))

\* a / b
DivF(a, b) ==
    IF a.k = "nan" \/ b.k = "nan" THEN NaN
    ELSE IF a.k = "approx" \/ b.k = "approx" THEN Approx
    ELSE IF a.k = "inf" THEN (IF b.k = "inf" THEN NaN ELSE Inf((a.s + b.s) % 2))
    ELSE IF b.k = "inf" THEN Fin((a.s + b.s) % 2, 0, 0)
    ELSE IF b.m = 0 THEN (IF a.m = 0 THEN NaN ELSE Inf((a.s + b.s) % 2))
    ELSE IF a.m = 0 THEN Fin((a.s + b.s) % 2, 0, 0)
    ELSE DivFin((a.s + b.s) % 2, a, b)

\* a.fract(): a - a.trunc()
FractF(a) ==
    IF a.k = "nan" THEN NaN
    ELSE IF a.k = "approx" THEN a
    ELSE IF a.k = "inf" THEN NaN
    ELSE IF a.e >= 0 THEN Zero
    ELSE IF 0 - a.e >= MantissaDigits THEN a
    ELSE Canon(a.s, a.m % 2^(0 - a.e), a.e)

\* a < b and a == b; neither holds of a NaN. MagLess is |x| < |y| for finite
\* x and y.
LessF(a, b) ==
    LET Less(A, B) == A.e < B.e \/ (A.e = B.e /\ A.m < B.m)
        MagLess(x, y) ==
            IF y.m = 0 THEN FALSE
            ELSE IF x.m = 0 THEN TRUE
            ELSE Less(Scaled(x), Scaled(y))
    IN  IF a.k = "nan" \/ b.k = "nan" THEN FALSE
        ELSE IF a.k = "inf" THEN a.s = 1 /\ ~(b.k = "inf" /\ b.s = 1)
        ELSE IF b.k = "inf" THEN b.s = 0
        ELSE IF a.m = 0 /\ b.m = 0 THEN FALSE
        ELSE IF a.s # b.s THEN a.s = 1
        ELSE IF a.s = 0 THEN MagLess(a, b)
        ELSE MagLess(b, a)
EqF(a, b) ==
    /\ a.k # "nan"
    /\ b.k # "nan"
    /\ (a = b \/ (a.k = "fin" /\ b.k = "fin" /\ a.m = 0 /\ b.m = 0))

\* Bounds lo <= 1024 * log2(a) <= hi for a finite a > 0, the logarithm of
\* the mantissa x / 2^29 (2^29 <= x < 2^30) taken digit by digit: lo and hi
\* bound the value whose logarithm is left, n digits are to come, l and u are
\* the digits so far of the lower and of the upper bound. Square gives
\* x * x / 2^29 rounded down, from the 15-digit halves of x.
Log2(a) ==
    LET Square(x) ==
            2 * (x \div 32768) * (x \div 32768)
              + ((2 * (x \div 32768) * (x % 32768) + (((x % 32768) * (x % 32768)) \div 32768))
                    \div 16384)
        RECURSIVE LogBits(_, _, _, _, _)
        LogSquared(lo, hi, n, l, u) ==
            IF lo >= 1073741824
            THEN LogBits(lo \div 2, (hi \div 2) + 1, n - 1, 2 * l + 1, 2 * u + 1)
            ELSE IF hi < 1073741824 THEN LogBits(lo, hi, n - 1, 2 * l, 2 * u)
            ELSE [lo |-> l * 2^n, hi |-> (u + 1) * 2^n]
        LogBits(lo, hi, n, l, u) ==
            IF n = 0 THEN [lo |-> l, hi |-> u + 1]
            ELSE LogSquared(Square(lo),
                            IF hi >= 1073741823 THEN 2147483647 ELSE Square(hi + 1) + 1,
                            n, l, u)
        LogOffset(A, r) ==
            [lo |-> (A.e + 29) * 1024 + r.lo, hi |-> (A.e + 29) * 1024 + r.hi]
        LogScaled(A) ==
            IF A.m = 536870912 THEN [lo |-> (A.e + 29) * 1024, hi |-> (A.e + 29) * 1024]
            ELSE LogOffset(A, LogBits(A.m, A.m, 10, 0, 0))
    IN  LogScaled(Scaled(a))

\* a.powf(b).
\* WholePart is the whole part of |b|, at most 1024: a power of two or more,
\* or of a half or less, with an exponent that large is an infinity or zero.
\* PowNat(m, n, 1) is m^n, or 0 when that has more than 24 digits. RootPow2 is
\* the root of m of degree 2^j, or 0 when it is no whole number.
\* PowExact is (m * 2^e)^(+-mb * 2^eb) for odd m and mb: a whole power when
\* eb >= 0, else a whole power of the root of degree 2^-eb when that root is
\* exact. The inverse of an exact power is exact when the power is one of
\* two; otherwise it is no float and powf returns one of the two floats next
\* to it, not always the nearer. An exact power p * 2^-150 with p > 1 lies
\* half way between two subnormals, and powf rounds it to either. A signalling
\* NaN operand gives a NaN whatever the other operand is; an operand of kind
\* "approx" is looked at before a quiet NaN, since 1.0.powf(NaN) and
\* NaN.powf(0.0) are 1.0.
\* PowBounded is a^b for a finite a > 0 other than 1 and a
\* finite b other than 0, lg the bounds of 1024 * log2(a) and w the whole
\* part of |b|: a result of 2^128 or more is an infinity, one of 2^-150 or
\* less is zero.
PowF(a, b) ==
    LET IsZero(x) == x.k = "fin" /\ x.m = 0
        IsOddInteger == b.e = 0 /\ b.m # 0
        WholePart ==
            IF b.e + BitLen(b.m) > 10 THEN 1024
            ELSE IF b.e >= 0 THEN b.m * 2^b.e
            ELSE IF 0 - b.e >= MantissaDigits THEN 0
            ELSE b.m \div 2^(0 - b.e)
        RECURSIVE PowNat(_, _, _)
        PowNat(m, n, p) ==
            IF n = 0 \/ m = 1 THEN p
            ELSE IF p > 16777216 \div m THEN 0
            ELSE PowNat(m, n - 1, m * p)
        Sqrt(m) == IF \E r \in 1..4096 : r * r = m THEN CHOOSE r \in 1..4096 : r * r = m ELSE 0
        RECURSIVE RootPow2(_, _)
        RootPow2(m, j) == IF j = 0 \/ m <= 1 THEN m ELSE RootPow2(Sqrt(m), j - 1)
        PowWhole(e, n, p) ==
            IF p = 0 THEN Approx
            ELSE IF b.s = 1 THEN (IF p = 1 THEN Round(0, 1, 0 - e * n, FALSE) ELSE Approx)
            ELSE IF p > 1 /\ e * n = MinExp - 1 THEN Approx
            ELSE Round(0, p, e * n, FALSE)
        PowRoot(r, e, j) ==
            IF r = 0 \/ (e % 2^j) # 0 THEN Approx
            ELSE PowWhole(e \div 2^j, b.m, PowNat(r, b.m, 1))
        PowExact(m, e) ==
            IF b.e >= 0 THEN PowWhole(e, b.m * 2^b.e, PowNat(m, b.m * 2^b.e, 1))
            ELSE IF 0 - b.e > 8 THEN Approx
            ELSE PowRoot(RootPow2(m, 0 - b.e), e, 0 - b.e)
        PowBounded(x, lg, w) ==
            IF lg.lo > 0 /\ b.s = 0 /\ lg.lo * w >= MaxExp * 1024 THEN Inf(0)
            ELSE IF lg.lo > 0 /\ b.s = 1 /\ lg.lo * w >= (1 - MinExp) * 1024 THEN Zero
            ELSE IF lg.hi < 0 /\ b.s = 0 /\ (0 - lg.hi) * w >= (1 - MinExp) * 1024 THEN Zero
            ELSE IF lg.hi < 0 /\ b.s = 1 /\ (0 - lg.hi) * w >= MaxExp * 1024 THEN Inf(0)
            ELSE IF w >= 1024 THEN Approx
            ELSE PowExact(x.m, x.e)
        PowPositive(x) ==
            IF x = Fin(0, 1, 0) THEN x ELSE PowBounded(x, Log2(x), WholePart)
    IN  IF a = SNaN \/ b = SNaN THEN NaN
        ELSE IF IsZero(b) \/ a = Fin(0, 1, 0) THEN Fin(0, 1, 0)
        ELSE IF a.k = "approx" \/ b.k = "approx" THEN Approx
        ELSE IF a.k = "nan" \/ b.k = "nan" THEN NaN
        ELSE IF b.k = "inf"
        THEN (IF a = Fin(1, 1, 0) THEN Fin(0, 1, 0)
              ELSE IF LessF(AbsF(a), Fin(0, 1, 0))
              THEN (IF b.s = 0 THEN Zero ELSE Inf(0))
              ELSE (IF b.s = 0 THEN Inf(0) ELSE Zero))
        ELSE IF a.k = "inf" \/ IsZero(a)
        THEN (IF (a.k = "inf") = (b.s = 0)
              THEN Inf(IF IsOddInteger THEN a.s ELSE 0)
              ELSE Fin(IF IsOddInteger THEN a.s ELSE 0, 0, 0))
        ELSE IF a.s = 1 /\ b.e < 0 THEN NaN
        ELSE IF a.s = 1 /\ IsOddInteger THEN NegF(PowPositive(AbsF(a)))
        ELSE PowPositive(AbsF(a))

\* 0.0001 as f32
Epsilon == Fin(0, 13743895, -37)

\* interpreter::TRUE, FALSE, is_truthy, from_bool
TrueVal == F32(1)
FalseVal == F32(-1)
is_truthy(v) == LessF(Zero, v)
\* from_bool with 0 for false
from_bool_zero_for_false(b) == IF b THEN TrueVal ELSE Zero
from_bool(b) == IF b THEN TrueVal ELSE FalseVal

(***************************************************************************)
(* Bounds of the TypeTable model.                                          *)
(***************************************************************************)
\* longest active scope stack explored
MaxDepth == 6
\* number of TypeTable calls explored after TypeTable::new
MaxCalls == 4
\* number of calls explored when the caller is inside a shadowing scenario
\* (an outer declaration, an opened block and the declaration inside it)
MaxScenarioCalls == 6
\* identifier occurrences of the source text: byte offsets 1..MaxNodes
MaxNodes == 3
\* opening braces of the source text: offsets MaxNodes+1..MaxNodes+MaxBlocks
MaxBlocks == 1

\* key of the outermost block
OuterBlock == 0

\* One identifier stands at each identifier offset of a source text:
\* "x" at offsets 1 and 2 (an outer and an inner declaration), "y" beyond
\* (another identifier declared in the same block).
NodePos == 1..MaxNodes
IdentOf(p) == IF p <= 2 THEN "x" ELSE "y"
Idents == {IdentOf(p) : p \in NodePos}
BraceKeys == (MaxNodes + 1)..(MaxNodes + MaxBlocks)

\* Option<Type>: "None" or one of the variants of Type. The TypeTable stores
\* and returns a type without ever looking into it, so the identifier held by
\* Function(id) is left out: "Function" stands for Function(id) of any id.
Types == {"Number", "Boolean", "Function", "Indeterminate"}
OptTypes == Types \cup {"None"}

VARIABLES
    symbols,        \* TypeTable.symbols: BlockPos -> (Identifier -> Symbol)
    scope,          \* TypeTable.scope: the active scope stack, innermost last
    scope_lengths,  \* TypeTable.scope_lengths: levels pushed by each enter
    status,         \* "ok", or "panic" once a call has aborted
    last,           \* the last call made and its arguments
    ncalls,         \* number of calls made so far
    saved,          \* scope stack as it was at each still unmatched
                    \* enter_block / enter_scope of the caller
    sh,             \* progress of the caller through a shadowing scenario
    src,            \* the token slice handed to Expression::new
    ref,            \* the value the expression is meant to have, when known
    pc,             \* how far Expression::new / Expression::eval has got
    toks,           \* what to_expr_tokens returned
    rpn,            \* what shunting_yard returned (Expression.rpn)
    value,          \* what eval_rpn returned
    string,         \* the source text handed to lex, a sequence of characters
    walk,           \* lex: the text still to be lexed
    lexed,          \* lex: tokens (the positioned tokens pushed so far)
    pos,            \* lex: the SourcePos of the start of walk
    issues,         \* the issues logged in the IssueTracker
    lexst,          \* "lexing", "done" once lex has returned, "panic"
    stream,         \* the TokenStream handed to a parser
    parsed,         \* what FunctionDef::parse / Statement::parse returned
    ppc             \* "ready", then the parser that has run: "FunctionDef"
                    \* or "Statement"; "new" when the caller has made a
                    \* FunctionDef with FunctionDef::new, "changed" once the
                    \* caller has changed the FunctionDef it holds

ttvars == <<symbols, scope, scope_lengths, status, last, ncalls, saved, sh>>
exprvars == <<src, ref, pc, toks, rpn, value>>
lexvars == <<string, walk, lexed, pos, issues, lexst>>
parsevars == <<stream, parsed, ppc>>
vars == <<symbols, scope, scope_lengths, status, last, ncalls, saved, sh,
          src, ref, pc, toks, rpn, value,
          string, walk, lexed, pos, issues, lexst,
          stream, parsed, ppc>>

EmptyMap == [i \in {} |-> i]
NoneRet == [some |-> FALSE]
NoCall == [op |-> "new", id |-> "", pos |-> 0, ty |-> "None"]

\* The caller's progress through the scenario "declare id in an outer block,
\* open a block, declare id again with another type, leave the block":
\* phase 1 after the outer declaration, 2 after the block is opened, 3 after
\* the inner declaration, 4 after the block is left, 0 outside the scenario.
\* Declarations of other identifiers, and the inner declaration typed again
\* with the same type, do not interrupt it.
NoShadow == [phase |-> 0, id |-> "", p1 |-> 0, t1 |-> "None", p2 |-> 0, t2 |-> "None"]
ShadowStep(s, call) ==
    IF call.op = "set_type" THEN
        IF s.phase \in {1, 2, 3} /\ call.id # s.id THEN s
        ELSE IF s.phase = 2 /\ call.pos # s.p1 /\ call.ty # s.t1
             THEN [s EXCEPT !.phase = 3, !.p2 = call.pos, !.t2 = call.ty]
        ELSE IF s.phase = 3 /\ call.pos = s.p2 /\ call.ty = s.t2 THEN s
        ELSE [NoShadow EXCEPT !.phase = 1, !.id = call.id, !.p1 = call.pos, !.t1 = call.ty]
    ELSE IF call.op = "enter_block" /\ s.phase = 1 THEN [s EXCEPT !.phase = 2]
    ELSE IF call.op = "leave_block" /\ s.phase = 3 THEN [s EXCEPT !.phase = 4]
    ELSE NoShadow

Front(s) == SubSeq(s, 1, Len(s) - 1)
Top(s) == s[Len(s)]

\* Vec::pop called n times, the Option it returns being dropped: popping an
\* empty vector is a no-op.
PopN(s, n) == IF n >= Len(s) THEN <<>> ELSE SubSeq(s, 1, Len(s) - n)

\* symbols.entry(k).or_insert(VecMap::new())
EntryOrInsertBlock(syms, k) ==
    IF k \in DOMAIN syms THEN syms
    ELSE [b \in DOMAIN syms \cup {k} |-> IF b = k THEN EmptyMap ELSE syms[b]]

\* TypeTable::new
TTInit ==
    /\ symbols = [b \in {OuterBlock} |-> EmptyMap]
    /\ scope = <<OuterBlock>>
    /\ scope_lengths = <<0>>
    /\ status = "ok"
    /\ last = NoCall
    /\ ncalls = 0
    /\ saved = <<>>
    /\ sh = NoShadow

\* TypeTable::enter_scope
enter_scope(chain) ==
    /\ status = "ok"
    /\ Len(scope) + Len(chain) <= MaxDepth
    /\ scope' = scope \o chain
    /\ scope_lengths' = Append(scope_lengths, Len(chain))
    /\ saved' = Append(saved, scope)
    /\ last' = [op |-> "enter_scope", id |-> "", pos |-> 0, ty |-> "None"]
    /\ sh' = ShadowStep(sh, last')
    /\ UNCHANGED <<symbols, status>>

\* TypeTable::enter_block
enter_block(k) ==
    /\ status = "ok"
    /\ Len(scope) < MaxDepth
    /\ scope' = Append(scope, k)
    /\ scope_lengths' = Append(scope_lengths, 1)
    /\ symbols' = EntryOrInsertBlock(symbols, k)
    /\ saved' = Append(saved, scope)
    /\ last' = [op |-> "enter_block", id |-> "", pos |-> k, ty |-> "None"]
    /\ sh' = ShadowStep(sh, last')
    /\ UNCHANGED status

\* The loop of leave_block, n iterations left: pop a block, count its symbols,
\* pop that many further levels. block.unwrap() aborts on an empty stack and
\* the index symbols[&block] on a block that has no map.
RECURSIVE LeaveLoop(_, _, _)
LeaveLoop(syms, sc, n) ==
    IF n = 0 THEN [scope |-> sc, panic |-> FALSE]
    ELSE IF sc = <<>> THEN [scope |-> sc, panic |-> TRUE]
    ELSE IF Top(sc) \notin DOMAIN syms THEN [scope |-> Front(sc), panic |-> TRUE]
    ELSE LET count == Cardinality(DOMAIN syms[Top(sc)])
         IN  LeaveLoop(syms, PopN(Front(sc), count), n - 1)

\* TypeTable::leave_block
leave_block ==
    /\ status = "ok"
    /\ last' = [op |-> "leave_block", id |-> "", pos |-> 0, ty |-> "None"]
    /\ sh' = ShadowStep(sh, last')
    /\ saved' = IF saved = <<>> THEN saved ELSE Front(saved)
    /\ IF ~(Len(scope_lengths) > 1)
       THEN /\ status' = "panic"
            /\ UNCHANGED <<symbols, scope, scope_lengths>>
       ELSE LET r == LeaveLoop(symbols, scope, Top(scope_lengths))
            IN  /\ scope_lengths' = Front(scope_lengths)
                /\ scope' = r.scope
                /\ status' = IF r.panic THEN "panic" ELSE "ok"
                /\ UNCHANGED symbols

\* TypeTable::set_type, for the identifier occurrence at offset p
set_type(p, ty) ==
    /\ status = "ok"
    /\ Len(scope) < MaxDepth
    /\ LET id == IdentOf(p)
           \* self.enter_block(id.pos().index)
           sc1 == Append(scope, p)
           syms1 == EntryOrInsertBlock(symbols, p)
           block_pos == Top(sc1)
           id_map == syms1[block_pos]
           \* id_map.entry(id).or_insert(Symbol { .. ty: None })
           symbol == IF id \in DOMAIN id_map THEN id_map[id]
                     ELSE [scope |-> sc1, id |-> id, pos |-> p, ty |-> "None"]
           id_map1 == [i \in DOMAIN id_map \cup {id} |->
                          IF i = id THEN [symbol EXCEPT !.ty = ty] ELSE id_map[i]]
       IN  /\ scope' = sc1
           /\ scope_lengths' = Append(scope_lengths, 1)
           /\ symbols' = [syms1 EXCEPT ![block_pos] = id_map1]
           /\ last' = [op |-> "set_type", id |-> id, pos |-> p, ty |-> ty]
    /\ sh' = ShadowStep(sh, last')
    /\ UNCHANGED <<status, saved>>

\* TypeTable::get_symbol_within: the blocks of sc from the last to the first,
\* idx counting the blocks already passed. A block without a map aborts
\* (symbols.get(..).unwrap()).
RECURSIVE get_symbol_from(_, _, _, _)
get_symbol_from(syms, sc, id, idx) ==
    IF idx >= Len(sc) THEN NoneRet
    ELSE LET block_pos == sc[Len(sc) - idx]
         IN  IF block_pos \notin DOMAIN syms THEN [some |-> FALSE, panic |-> TRUE]
             ELSE IF id \in DOMAIN syms[block_pos]
                  THEN [some |-> TRUE, sym |-> syms[block_pos][id], depth |-> idx]
                  ELSE get_symbol_from(syms, sc, id, idx + 1)

get_symbol_within(syms, sc, id) == get_symbol_from(syms, sc, id, 0)

\* TypeTable::get_symbol, as an operator on the current table
get_symbol_now(id) == get_symbol_within(symbols, scope, id)

\* Chains a caller hands to enter_scope: the scope path captured in a stored
\* symbol (the lexical context of a closure).
CapturedScopes ==
    UNION {{symbols[b][i].scope : i \in DOMAIN symbols[b]} : b \in DOMAIN symbols}

\* The expression engine before any expression is compiled.
NoResult == [ok |-> FALSE, out |-> <<>>, err |-> "", at |-> 0]
NoValue == [ok |-> FALSE, val |-> Zero, err |-> "", op |-> ""]
NoRef == [known |-> FALSE, val |-> Zero]
ExprIdle ==
    /\ src = <<>>
    /\ ref = NoRef
    /\ pc = "idle"
    /\ toks = NoResult
    /\ rpn = NoResult
    /\ value = NoValue

\* The lexer before any text is lexed; SourcePos::new.
NewPos == [line |-> 1, column |-> 1, index |-> 0, line_index |-> 0]
LexIdle ==
    /\ string = <<>>
    /\ walk = <<>>
    /\ lexed = <<>>
    /\ pos = NewPos
    /\ issues = <<>>
    /\ lexst = "idle"

\* The parsers before any token stream is parsed.
NoParse == [ok |-> FALSE, panic |-> FALSE, err |-> "", at |-> 0, got |-> 0,
            args |-> EmptyMap, node |-> <<>>]
ParseIdle ==
    /\ stream = <<>>
    /\ parsed = NoParse
    /\ ppc = "idle"

Init == TTInit /\ ExprIdle /\ LexIdle /\ ParseIdle

\* One more call of the caller: up to MaxCalls calls of any kind, and up to
\* MaxScenarioCalls when the caller has made the inner declaration of a
\* shadowing scenario; the expression engine, the lexer and the parsers are
\* idle.
Counted ==
    /\ \/ ncalls < MaxCalls
       \/ sh.phase >= 3 /\ ncalls < MaxScenarioCalls
    /\ ncalls' = ncalls + 1
    /\ UNCHANGED <<exprvars, lexvars, parsevars>>

EnterScope == Counted /\ \E chain \in CapturedScopes : enter_scope(chain)
EnterBlock == Counted /\ \E k \in BraceKeys : enter_block(k)
LeaveBlock == Counted /\ leave_block
SetType == Counted /\ \E p \in NodePos, ty \in OptTypes : set_type(p, ty)

Next ==
    \/ EnterScope
    \/ EnterBlock
    \/ LeaveBlock
    \/ SetType

Spec == Init /\ [][Next]_vars

(***************************************************************************)
(* Claims about the TypeTable, checked under Spec.                         *)
(***************************************************************************)

\* C1: the leave_block that matches an enter_block or enter_scope (balanced
\* pairs and set_type calls in between) restores the scope stack to the
\* content it had before that enter.
C1_LeaveRestoresScope ==
    [][(last'.op = "leave_block" /\ saved # <<>>) => scope' = Top(saved)]_vars

\* C2: as long as no call has aborted the scope stack is non-empty and its
\* bottom element is the outermost block.
C2_OutermostNeverRemoved ==
    status = "ok" => (scope # <<>> /\ scope[1] = OuterBlock)

\* C3: leave_block called when every enter has been matched aborts, whatever
\* set_type calls were made before.
C3_LeaveOutermostAborts ==
    [][(last'.op = "leave_block" /\ saved = <<>>) => status' = "panic"]_vars

\* C4: set_type(id, ty) called with innermost open block b stores id with
\* type ty in the map of b and leaves the map of every other block unchanged.
C4_SetTypeWritesInnermost ==
    [][(last'.op = "set_type" /\ scope # <<>>) =>
          LET b == Top(scope)
          IN  /\ last'.id \in DOMAIN symbols'[b]
              /\ symbols'[b][last'.id].ty = last'.ty
              /\ \A k \in DOMAIN symbols' \ {b} :
                    k \in DOMAIN symbols /\ symbols'[k] = symbols[k]]_vars

\* The levels of the active scope stack whose block declares id.
Declaring(id) == {i \in 1..Len(scope) : id \in DOMAIN symbols[scope[i]]}
MaxOf(S) == CHOOSE m \in S : \A n \in S : n <= m

\* get_symbol(id) gives the symbol of the innermost block of the stack that
\* declares id with the number of levels crossed, None when no block does.
InnermostFirst(id) ==
    LET r == get_symbol_now(id)
        D == Declaring(id)
    IN  IF D = {} THEN r = NoneRet
        ELSE r = [some |-> TRUE,
                  sym |-> symbols[scope[MaxOf(D)]][id],
                  depth |-> Len(scope) - MaxOf(D)]

\* C5: get_symbol returns the symbol of the innermost block of the stack that
\* declares id with the number of levels crossed, None exactly when no block
\* of the stack declares id, and depth 0 for a symbol that set_type declared
\* in the block the caller has open: for the symbol set_type just stored, and
\* still so after the caller has declared one more symbol in that block (no
\* block entered or left in between).
C5_GetSymbolInnermostFirst ==
    /\ [](status = "ok" =>
            /\ \A id \in Idents : InnermostFirst(id)
            /\ last.op = "set_type" =>
                  LET r == get_symbol_now(last.id)
                  IN  r.some /\ r.depth = 0 /\ r.sym.ty = last.ty /\ r.sym.id = last.id)
    /\ [][(last.op = "set_type" /\ last'.op = "set_type" /\ status' = "ok") =>
             LET r == get_symbol_within(symbols', scope', last.id)
             IN  r.some /\ r.depth = 0]_vars

\* C6: inside the inner block a lookup of the redeclared identifier gives the
\* inner type, after the leave_block that closes the block the outer type.
C6_ShadowingScenario ==
    /\ sh.phase = 3 =>
          LET r == get_symbol_now(sh.id) IN r.some /\ r.sym.ty = sh.t2
    /\ sh.phase = 4 =>
          /\ status = "ok"
          /\ LET r == get_symbol_now(sh.id) IN r.some /\ r.sym.ty = sh.t1


(***************************************************************************)
(* The expression engine (interpreter/expr.rs).                            *)
(***************************************************************************)

\* Tokens of the lexer, as far as to_expr_tokens tells them apart.
TConst(v) == [t |-> "Const", v |-> v, s |-> ""]
\* the constant that holds the whole number n
TNum(n) == TConst(F32(n))
TOperator(s) == [t |-> "Operator", v |-> Zero, s |-> s]
TParen(s) == [t |-> "Paren", v |-> Zero, s |-> s]
TIdent(s) == [t |-> "Ident", v |-> Zero, s |-> s]
TNewline == [t |-> "Newline", v |-> Zero, s |-> ""]
TComma == [t |-> "Comma", v |-> Zero, s |-> ","]
\* any other token: = : ; ? and the like
TSymbol(s) == [t |-> "Symbol", v |-> Zero, s |-> s]

\* enum ExprToken: v is the f32 of a Value, n the slot of a Var
Op(o) == [k |-> "Op", op |-> o, v |-> Zero, n |-> 0]
Value(v) == [k |-> "Value", op |-> "", v |-> v, n |-> 0]
Var(id) == [k |-> "Var", op |-> "", v |-> Zero, n |-> id]
LParen == [k |-> "LParen", op |-> "", v |-> Zero, n |-> 0]
RParen == [k |-> "RParen", op |-> "", v |-> Zero, n |-> 0]
\* Fn(call): the callee and the number of tokens of the call
Fn(name, n) == [k |-> "Fn", op |-> name, v |-> Zero, n |-> n]

\* enum Operator
Operators == {"Add", "Sub", "Mul", "Div", "Exp", "Mod", "Neg", "Less", "Greater",
              "Equ", "NotEqu", "ApproxEqu", "Not", "And", "Or", "Xor",
              "GreaterEqual", "LessEqual"}

\* Operator::precedence
precedence(op) ==
    CASE op \in {"And", "Or", "Xor"} -> 0
      [] op \in {"Equ", "NotEqu", "ApproxEqu"} -> 1
      [] op \in {"Less", "Greater", "GreaterEqual", "LessEqual"} -> 2
      [] op \in {"Add", "Sub"} -> 3
      [] op \in {"Mul", "Div", "Mod"} -> 4
      [] op \in {"Neg", "Not", "Exp"} -> 6

\* Operator::num_args
num_args(op) == IF op \in {"Neg", "Not"} THEN 1 ELSE 2

\* Operator::associativity with every operator, Exp included, Left.
associativity_all_left(op) == "Left"

\* Operator::associativity
associativity(op) == IF op = "Exp" THEN "Right" ELSE "Left"

\* Results: Ok(list) or Err(message); at is the index (from 1) of the token
\* the function was at when it returned the error, 0 when it had none.
Ok(out) == [ok |-> TRUE, out |-> out, err |-> "", at |-> 0]
Err(msg, at) == [ok |-> FALSE, out |-> <<>>, err |-> msg, at |-> at]

\* The scope an expression is compiled and evaluated in (interpreter/scope.rs):
\* variable "a" in slot 0 holding 2, variable "b" in slot 1 without a value,
\* function "f".
var_id(name) == CASE name = "a" -> 0 [] name = "b" -> 1 [] OTHER -> -1
func_id(name) == IF name = "f" THEN 0 ELSE -1
get_var(slot) == IF slot = 0 THEN [some |-> TRUE, val |-> F32(2)] ELSE [some |-> FALSE, val |-> Zero]
\* SyntFunctionCall::call: the value of a call of "f"
call_fn(name) == F32(3)

\* The match on the operator lexeme in to_expr_tokens.
OperatorOf(lexeme) ==
    CASE lexeme = "+" -> "Add"
      [] lexeme = "-" -> "Sub"
      [] lexeme = "*" -> "Mul"
      [] lexeme = "/" -> "Div"
      [] lexeme = "^" -> "Exp"
      [] lexeme = "%" -> "Mod"
      [] lexeme = "==" -> "Equ"
      [] lexeme = "!=" -> "NotEqu"
      [] lexeme = "~=" -> "ApproxEqu"
      [] lexeme = "<" -> "Less"
      [] lexeme = ">" -> "Greater"
      [] lexeme = "<=" -> "LessEqual"
      [] lexeme = ">=" -> "GreaterEqual"
      [] lexeme = "!" -> "Not"
      [] lexeme = "&&" -> "And"
      [] lexeme = "||" -> "Or"
      [] lexeme = "^^" -> "Xor"
      [] OTHER -> ""

\* A scan that stops at the first ) it meets, whatever the depth.
RECURSIVE ScanCall_first_close(_, _, _)
ScanCall_first_close(tokens, j, depth) ==
    IF j > Len(tokens) THEN 0
    ELSE IF tokens[j] = TParen(")") THEN j
    ELSE ScanCall_first_close(tokens, j + 1, depth)

\* The forward scan of to_expr_tokens for the end of a function call: j is the
\* next token to take, depth the paren depth so far. Gives the index of the
\* token at which the depth is back at zero, 0 when the tokens run out first.
RECURSIVE ScanCall(_, _, _)
ScanCall(tokens, j, depth) ==
    IF j > Len(tokens) THEN 0
    ELSE LET d == CASE tokens[j] = TParen("(") -> depth + 1
                    [] tokens[j] = TParen(")") -> depth - 1
                    [] OTHER -> depth
         IN  IF d = 0 THEN j ELSE ScanCall(tokens, j + 1, d)

\* The main loop of to_expr_tokens: i is the next token of the slice, out the
\* ExprTokens pushed so far.
RECURSIVE ToExprLoop(_, _, _)
ToExprLoop(tokens, i, out) ==
    IF i > Len(tokens) THEN Ok(out)
    ELSE LET tk == tokens[i] IN
      CASE tk.t = "Const" -> ToExprLoop(tokens, i + 1, Append(out, Value(tk.v)))
        [] tk.t = "Operator" ->
             IF OperatorOf(tk.s) = ""
             THEN Err("unexpected operator in expression", i)
             ELSE ToExprLoop(tokens, i + 1, Append(out, Op(OperatorOf(tk.s))))
        [] tk.t = "Paren" ->
             IF tk.s = "(" THEN ToExprLoop(tokens, i + 1, Append(out, LParen))
             ELSE IF tk.s = ")" THEN ToExprLoop(tokens, i + 1, Append(out, RParen))
             ELSE Err("unexpected paren type in expression", i)
        [] tk.t = "Ident" ->
             LET is_fn == i < Len(tokens) /\ tokens[i + 1] = TParen("(") IN
             IF is_fn
             THEN LET call_end == ScanCall(tokens, i + 1, 0) IN
                  IF call_end = 0
                  THEN Err("unexpected end of file in function call", i)
                  ELSE IF func_id(tk.s) >= 0
                  THEN ToExprLoop(tokens, call_end + 1,
                                  Append(out, Fn(tk.s, call_end - i + 1)))
                  ELSE Err("function appears in expression but is not defined in scope", i)
             ELSE IF var_id(tk.s) >= 0
                  THEN ToExprLoop(tokens, i + 1, Append(out, Var(var_id(tk.s))))
                  ELSE Err("variable appears in expression but is not defined in scope", i)
        [] tk.t = "Newline" -> ToExprLoop(tokens, i + 1, out)
        [] OTHER -> Err("unexpected token in expression", i)

\* The unary-minus pass without the LParen case.
unary_minus_pass_op_only(out) ==
    [i \in 1..Len(out) |->
        IF out[i] = Op("Sub") /\ (i = 1 \/ out[i - 1].k = "Op")
        THEN Op("Neg") ELSE out[i]]

\* The unary-minus pass that ends to_expr_tokens. out[i - 1] is read after it
\* may have been rewritten itself, which leaves its kind Op.
unary_minus_pass(out) ==
    [i \in 1..Len(out) |->
        IF out[i] = Op("Sub") /\ (i = 1 \/ out[i - 1].k \in {"Op", "LParen"})
        THEN Op("Neg") ELSE out[i]]

\* to_expr_tokens
to_expr_tokens(tokens) ==
    IF tokens = <<>> THEN Err("empty expression in file", 0)
    ELSE LET r == ToExprLoop(tokens, 1, <<>>)
         IN  IF r.ok THEN Ok(unary_minus_pass(r.out)) ELSE r

\* The while loop of the Op arm of shunting_yard: operators are moved from the
\* stack to the output while the top is an operator that op1 yields to.
RECURSIVE PopOperators(_, _, _)
PopOperators(op1, out, stack) ==
    IF Len(stack) > 0 /\ Top(stack).k = "Op"
       /\ (\/ associativity(op1) = "Left" /\ precedence(op1) <= precedence(Top(stack).op)
           \/ precedence(op1) < precedence(Top(stack).op))
    THEN PopOperators(op1, Append(out, Top(stack)), Front(stack))
    ELSE [out |-> out, stack |-> stack]

\* The RParen arm that takes an emptied stack for a found left paren.
RECURSIVE PopToLParen_always_found(_, _)
PopToLParen_always_found(out, stack) ==
    IF Len(stack) = 0 THEN [foundleft |-> TRUE, out |-> out, stack |-> stack]
    ELSE IF Top(stack).k = "LParen"
         THEN [foundleft |-> TRUE, out |-> out, stack |-> Front(stack)]
         ELSE PopToLParen_always_found(Append(out, Top(stack)), Front(stack))

\* The while loop of the RParen arm: pop to the output until a left paren is
\* popped. Only operators and left parens are ever pushed on the stack.
RECURSIVE PopToLParen(_, _)
PopToLParen(out, stack) ==
    IF Len(stack) = 0 THEN [foundleft |-> FALSE, out |-> out, stack |-> stack]
    ELSE IF Top(stack).k = "LParen"
         THEN [foundleft |-> TRUE, out |-> out, stack |-> Front(stack)]
         ELSE PopToLParen(Append(out, Top(stack)), Front(stack))

\* The final while loop of shunting_yard.
RECURSIVE DrainStack(_, _, _)
DrainStack(out, stack, n) ==
    IF Len(stack) = 0 THEN Ok(out)
    ELSE IF Top(stack).k = "Op"
         THEN DrainStack(Append(out, Top(stack)), Front(stack), n)
         ELSE Err("mismatched parens: skewed left", n)

\* The for loop of shunting_yard: i is the next token.
RECURSIVE ShuntingLoop(_, _, _, _)
ShuntingLoop(tokens, i, out, stack) ==
    IF i > Len(tokens) THEN DrainStack(out, stack, Len(tokens))
    ELSE LET token == tokens[i] IN
      CASE token.k \in {"Value", "Var", "Fn"} ->
             ShuntingLoop(tokens, i + 1, Append(out, token), stack)
        [] token.k = "Op" ->
             LET r == PopOperators(token.op, out, stack)
             IN  ShuntingLoop(tokens, i + 1, r.out, Append(r.stack, token))
        [] token.k = "LParen" ->
             ShuntingLoop(tokens, i + 1, out, Append(stack, token))
        [] token.k = "RParen" ->
             LET r == PopToLParen(out, stack)
             IN  IF ~r.foundleft
                 THEN Err("mismatched parens: skewed right", i)
                 ELSE ShuntingLoop(tokens, i + 1, r.out, r.stack)

\* shunting_yard
shunting_yard(tokens) == ShuntingLoop(tokens, 1, <<>>, <<>>)

\* The Mod arm of eval_rpn: (a / b).abs().fract() * b.abs(), negated unless
\* a > 0
ModF(a, b) ==
    LET Signed(c) == IF LessF(Zero, a) THEN c ELSE NegF(c)
    IN  Signed(MulF(FractF(AbsF(DivF(a, b))), AbsF(b)))

\* a <= b
LessEqF(a, b) == LessF(a, b) \/ EqF(a, b)

\* The match on the operator in eval_rpn; args[0] is the value popped first.
\* (args is <<args[0], args[1]>>, indexed from 1 here.) A comparison or a
\* truth test of a value of kind "approx" is as little fixed as that value.
Compute(op, args) ==
    IF op # "Exp" /\ (\E i \in 1..Len(args) : args[i] = Approx) THEN Approx
    ELSE CASE op = "Add" -> AddF(args[2], args[1])
           [] op = "Sub" -> SubF(args[2], args[1])
           [] op = "Mul" -> MulF(args[2], args[1])
           [] op = "Div" -> DivF(args[2], args[1])
           [] op = "Exp" -> PowF(args[2], args[1])
           [] op = "Mod" -> ModF(args[2], args[1])
           [] op = "Neg" -> NegF(args[1])
           [] op = "Not" -> from_bool(is_truthy(NegF(args[1])))
           [] op = "Less" -> from_bool(LessF(args[2], args[1]))
           [] op = "Greater" -> from_bool(LessF(args[1], args[2]))
           [] op = "LessEqual" -> from_bool(LessEqF(args[2], args[1]))
           [] op = "GreaterEqual" -> from_bool(LessEqF(args[1], args[2]))
           [] op = "Equ" -> from_bool(EqF(args[2], args[1]))
           [] op = "NotEqu" -> from_bool(~EqF(args[2], args[1]))
           [] op = "ApproxEqu" -> from_bool(LessF(AbsF(SubF(args[2], args[1])), Epsilon))
           [] op = "And" -> from_bool(is_truthy(args[2]) /\ is_truthy(args[1]))
           [] op = "Or" -> from_bool(is_truthy(args[2]) \/ is_truthy(args[1]))
           [] op = "Xor" -> from_bool(is_truthy(args[2]) # is_truthy(args[1]))

\* Results of eval_rpn: Ok(value) or Err(message); op is the operator the
\* message names, if it names one.
EvalOk(v) == [ok |-> TRUE, val |-> v, err |-> "", op |-> ""]
EvalErr(msg, op) == [ok |-> FALSE, val |-> Zero, err |-> msg, op |-> op]

\* The final match of eval_rpn that hands back the top of any non-empty stack.
EvalFinish_top_of_stack(stack) ==
    IF Len(stack) >= 1 THEN EvalOk(Top(stack))
    ELSE EvalErr("zero values in expression", "")

\* The final match of eval_rpn on stack.len()
EvalFinish(stack) ==
    IF Len(stack) = 1 THEN EvalOk(Top(stack))
    ELSE IF Len(stack) = 0 THEN EvalErr("zero values in expression", "")
    ELSE EvalErr("too many values in expression", "")

\* The operands of an operator taken in the order they lie on the stack.
PopArgs_in_stack_order(stack, n) == [j \in 1..n |-> stack[Len(stack) - n + j]]

\* range(0, n).map(|_| stack.pop().unwrap()).collect(): the n values popped,
\* the top of the stack first.
PopArgs(stack, n) == [j \in 1..n |-> stack[Len(stack) + 1 - j]]

\* The for loop of eval_rpn: i is the next entry, stack the value stack.
RECURSIVE EvalLoop(_, _, _)
EvalLoop(r, i, stack) ==
    IF i > Len(r) THEN EvalFinish(stack)
    ELSE LET t == r[i] IN
      CASE t.k = "Value" -> EvalLoop(r, i + 1, Append(stack, t.v))
        [] t.k = "Fn" -> EvalLoop(r, i + 1, Append(stack, call_fn(t.op)))
        [] t.k = "Var" ->
             IF get_var(t.n).some
             THEN EvalLoop(r, i + 1, Append(stack, get_var(t.n).val))
             ELSE EvalErr("Attempted to access a nonexistent variable", "")
        [] t.k = "Op" ->
             LET n == num_args(t.op) IN
             IF Len(stack) < n
             THEN EvalErr("invalid expression: not enough args for operator", t.op)
             ELSE LET args == PopArgs(stack, n)
                  IN  EvalLoop(r, i + 1,
                               Append(SubSeq(stack, 1, Len(stack) - n), Compute(t.op, args)))
        [] OTHER -> EvalErr("unexpected token in expression", "")

\* eval_rpn
eval_rpn(r) == EvalLoop(r, 1, <<>>)

\* fold_scope that puts a value in the place of every Var, bound or not.
fold_scope_every_var(r) ==
    [i \in 1..Len(r) |->
        IF r[i].k = "Var" THEN Value(get_var(r[i].n).val) ELSE r[i]]

\* Expression::fold_scope: every Var whose slot the scope binds becomes the
\* Value bound to it; every other entry stays as it is.
fold_scope(r) ==
    [i \in 1..Len(r) |->
        IF r[i].k = "Var" /\ get_var(r[i].n).some
        THEN Value(get_var(r[i].n).val)
        ELSE r[i]]

(***************************************************************************)
(* The expressions explored: every token slice of up to MaxToks tokens     *)
(* over Alphabet, every expression tree of up to MaxBinOps binary          *)
(* operators written out in infix with the parentheses its grouping needs, *)
(* and the expressions the specification names.                            *)
(***************************************************************************)
MaxToks == 4
MaxBinOps == 2
\* tokens after the ( that opens a call
MaxCallBody == 4
\* unary operators in a row before an operand
MaxUnary == 2

Alphabet == {TNum(2), TNum(3), TOperator("+"), TOperator("-"), TOperator("*"),
             TOperator("^"), TParen("("), TParen(")")}
TreeConsts == {2, 3}
TreeOps == {"Add", "Sub", "Mul", "Exp", "Less", "Equ", "And"}

RECURSIVE TokenSeqs(_)
TokenSeqs(n) ==
    IF n = 0 THEN {<<>>}
    ELSE LET shorter == TokenSeqs(n - 1)
         IN  shorter \cup {Append(q, a) : q \in {q \in shorter : Len(q) = n - 1}, a \in Alphabet}

\* Trees with exactly n binary operators: <<"c", v>> or <<"b", op, left, right>>.
RECURSIVE TreesWith(_)
TreesWith(n) ==
    IF n = 0 THEN {<<"c", v>> : v \in TreeConsts}
    ELSE UNION {{<<"b", op, l, r>> : op \in TreeOps, l \in TreesWith(m), r \in TreesWith(n - 1 - m)} :
                m \in 0..(n - 1)}
Trees == UNION {TreesWith(n) : n \in 0..MaxBinOps}

\* The grouping rules of the specification: tiers from loosest to tightest,
\* equal tiers group left to right, Exp groups right to left.
RefTier(op) ==
    CASE op \in {"And", "Or", "Xor"} -> 0
      [] op \in {"Equ", "NotEqu", "ApproxEqu"} -> 1
      [] op \in {"Less", "Greater", "LessEqual", "GreaterEqual"} -> 2
      [] op \in {"Add", "Sub"} -> 3
      [] op \in {"Mul", "Div", "Mod"} -> 4
      [] op \in {"Neg", "Not", "Exp"} -> 5
RefRightToLeft(op) == op = "Exp"

Lexemes == {"+", "-", "*", "/", "^", "%", "==", "!=", "~=", "<", ">", "<=", ">=",
            "!", "&&", "||", "^^"}
LexemeOf(op) == CHOOSE l \in Lexemes : OperatorOf(l) = op

Parenthesized(need, q) == IF need THEN <<TParen("(")>> \o q \o <<TParen(")")>> ELSE q

\* The infix text of a tree: an operand is parenthesized exactly when the
\* grouping rules would not give it back as that operand.
RECURSIVE Unparse(_)
Unparse(t) ==
    IF t[1] = "c" THEN <<TNum(t[2])>>
    ELSE LET op == t[2]
             l == t[3]
             r == t[4]
             pl == l[1] = "b" /\ (\/ RefTier(l[2]) < RefTier(op)
                                  \/ RefTier(l[2]) = RefTier(op) /\ RefRightToLeft(op))
             pr == r[1] = "b" /\ (\/ RefTier(r[2]) < RefTier(op)
                                  \/ RefTier(r[2]) = RefTier(op) /\ ~RefRightToLeft(op))
         IN  Parenthesized(pl, Unparse(l)) \o <<TOperator(LexemeOf(op))>>
                \o Parenthesized(pr, Unparse(r))

\* The value of a tree: left operand op right operand.
RECURSIVE TreeValue(_)
TreeValue(t) ==
    IF t[1] = "c" THEN F32(t[2])
    ELSE Compute(t[2], <<TreeValue(t[4]), TreeValue(t[3])>>)

Known(v) == [known |-> TRUE, val |-> v]

Ex_2_plus_3_times_4 == <<TNum(2), TOperator("+"), TNum(3), TOperator("*"), TNum(4)>>
Ex_paren_2_plus_3_times_4 ==
    <<TParen("("), TNum(2), TOperator("+"), TNum(3), TParen(")"), TOperator("*"), TNum(4)>>
Ex_2_exp_3_exp_2 == <<TNum(2), TOperator("^"), TNum(3), TOperator("^"), TNum(2)>>
Ex_neg_3_plus_4 == <<TOperator("-"), TNum(3), TOperator("+"), TNum(4)>>
Ex_2_times_neg_3 == <<TNum(2), TOperator("*"), TOperator("-"), TNum(3)>>
Ex_neg_paren_2_plus_3 ==
    <<TOperator("-"), TParen("("), TNum(2), TOperator("+"), TNum(3), TParen(")")>>

\* The expressions of the specification's testable properties, with the
\* values it gives, slices that take the other arms of to_expr_tokens, and
\* expressions whose value is a rounded sum, a remainder taken from a rounded
\* quotient, and a fraction.
Examples ==
    {[src |-> Ex_2_plus_3_times_4, ref |-> Known(F32(14))],
     [src |-> Ex_paren_2_plus_3_times_4, ref |-> Known(F32(20))],
     [src |-> Ex_2_exp_3_exp_2, ref |-> Known(F32(512))],
     [src |-> Ex_neg_3_plus_4, ref |-> Known(F32(1))],
     [src |-> Ex_2_times_neg_3, ref |-> Known(F32(-6))],
     [src |-> Ex_neg_paren_2_plus_3, ref |-> Known(F32(-5))]}
    \cup {[src |-> q, ref |-> NoRef] : q \in
           {<<TParen("("), TNum(1), TOperator("+"), TNum(2)>>,
            <<TNum(1), TOperator("+"), TNum(2), TParen(")")>>,
            <<TNum(2), TNewline, TOperator("-"), TNewline, TOperator("-"), TNum(3)>>,
            <<TIdent("a"), TOperator("-"), TNum(3)>>,
            <<TIdent("b"), TOperator("+"), TNum(3)>>,
            <<TIdent("a"), TOperator("-"), TIdent("b")>>,
            <<TIdent("b"), TOperator("*"), TIdent("a"), TOperator("+"), TIdent("a")>>,
            <<TIdent("c")>>,
            <<TIdent("f"), TParen("("), TNum(2), TParen(")"), TOperator("-"), TNum(3)>>,
            <<TIdent("f"), TParen("("), TParen("("), TNum(2), TParen(")")>>,
            <<TIdent("g"), TParen("("), TParen(")")>>,
            <<TNum(2), TOperator("="), TNum(3)>>,
            <<TNum(2), TParen("["), TNum(3)>>,
            <<TNum(2), TComma, TNum(3)>>,
            <<TNum(16777216), TOperator("+"), TNum(1)>>,
            <<TNum(7), TOperator("%"), TNum(3)>>,
            <<TNum(1), TOperator("/"), TNum(2), TOperator("*"), TNum(2)>>,
            <<TNum(2), TOperator("^"), TNum(1), TOperator("/"), TNum(2)>>}}

\* Expressions over the boolean, comparison and arithmetic operators with
\* operands from -MaxOperand to MaxOperand. A constant has no sign of its
\* own, so a negative operand is written ( - n ).
MaxOperand == 2
BoolOperands == (0 - MaxOperand)..MaxOperand
CmpOperands == 1..MaxOperand
OrderOperands == 0..MaxOperand
BoolLexemes == {"&&", "||", "^^"}
CmpLexemes == {"<", ">", "<=", ">=", "==", "!=", "~="}
BinLexemes == Lexemes \ {"!"}

OperandSrc(v) ==
    IF v < 0 THEN <<TParen("("), TOperator("-"), TNum(0 - v), TParen(")")>>
    ELSE <<TNum(v)>>
CmpSrc(l, a, b) == <<TParen("("), TNum(a), TOperator(l), TNum(b), TParen(")")>>
Cmps == {CmpSrc(l, a, b) : l \in CmpLexemes, a \in CmpOperands, b \in CmpOperands}

\* ! v and a && b, a || b, a ^^ b over every operand
TruthSrcs ==
    {<<TOperator("!")>> \o OperandSrc(v) : v \in BoolOperands}
    \cup {OperandSrc(a) \o <<TOperator(l)>> \o OperandSrc(b) :
             l \in BoolLexemes, a \in BoolOperands, b \in BoolOperands}

\* a comparison, its negation, and two comparisons under && || ^^
SentinelSrcs ==
    Cmps
    \cup {<<TOperator("!")>> \o c : c \in Cmps}
    \cup {c \o <<TOperator(l)>> \o d : l \in BoolLexemes, c \in Cmps, d \in Cmps}

\* a op b for every binary operator
OrderSrcs ==
    {<<TNum(a), TOperator(l), TNum(b)>> :
        l \in BinLexemes, a \in OrderOperands, b \in OrderOperands}

\* an identifier and ( at the start or after 2 -, then any tokens: calls of
\* the function f and of g, which the scope does not hold, closed and open
CallAlphabet == {TIdent("f"), TIdent("g"), TParen("("), TParen(")"), TNum(2), TOperator("-")}
RECURSIVE CallBodies(_)
CallBodies(n) ==
    IF n = 0 THEN {<<>>}
    ELSE LET shorter == CallBodies(n - 1)
         IN  shorter \cup {Append(q, a) : q \in {q \in shorter : Len(q) = n - 1},
                                          a \in CallAlphabet}
CallPrefixes == {<<>>, <<TNum(2), TOperator("-")>>}
CallSrcs ==
    {pre \o <<TIdent(callee), TParen("(")>> \o body :
        pre \in CallPrefixes, callee \in {"f", "g"}, body \in CallBodies(MaxCallBody)}

\* up to MaxUnary unary operators before a constant, alone or as the right
\* operand of 2 +, 2 * and 2 ^, with the value of the expression: a unary
\* operator applies to what follows it, ! gives the sentinel of false for a
\* value above zero and that of true otherwise
UnaryLexemes == {"-", "!"}
RECURSIVE UnaryRuns(_)
UnaryRuns(n) ==
    IF n = 0 THEN {<<>>}
    ELSE LET shorter == UnaryRuns(n - 1)
         IN  shorter \cup {<<u>> \o run : u \in UnaryLexemes,
                                          run \in {x \in shorter : Len(x) = n - 1}}
UnaryPrefixes == {"", "+", "*", "^"}
UnaryConsts == {1, 3}
RECURSIVE RefUnaryRun(_, _)
RefUnaryRun(run, c) ==
    IF run = <<>> THEN c
    ELSE LET v == RefUnaryRun(Tail(run), c)
         IN  IF Head(run) = "-" THEN 0 - v
             ELSE IF v > 0 THEN -1 ELSE 1
\* 2^v is the f32 with mantissa 1 and exponent v
RefUnary(pre, run, c) ==
    LET v == RefUnaryRun(run, c)
    IN  CASE pre = "" -> Known(F32(v))
          [] pre = "+" -> Known(F32(2 + v))
          [] pre = "*" -> Known(F32(2 * v))
          [] pre = "^" -> Known(Fin(0, 1, v))
UnarySrc(pre, run, c) ==
    (IF pre = "" THEN <<>> ELSE <<TNum(2), TOperator(pre)>>)
        \o [k \in 1..Len(run) |-> TOperator(run[k])] \o <<TNum(c)>>

\* The expression a run compiles, with the value the specification's rules
\* give it where they give one.
Inputs(q, r) ==
    \/ q \in TokenSeqs(MaxToks) /\ r = NoRef
    \/ \E t \in Trees : q = Unparse(t) /\ r = Known(TreeValue(t))
    \/ \E ex \in Examples : q = ex.src /\ r = ex.ref
    \/ q \in TruthSrcs \cup SentinelSrcs \cup OrderSrcs /\ r = NoRef
    \/ q \in CallSrcs /\ r = NoRef
    \/ \E pre \in UnaryPrefixes, run \in UnaryRuns(MaxUnary), c \in UnaryConsts :
          q = UnarySrc(pre, run, c) /\ r = RefUnary(pre, run, c)

InitExpr ==
    /\ TTInit
    /\ LexIdle
    /\ ParseIdle
    /\ Inputs(src, ref)
    /\ pc = "new"
    /\ toks = NoResult
    /\ rpn = NoResult
    /\ value = NoValue

\* Expression::new, first half: to_expr_tokens
ToExprTokens ==
    /\ pc = "new"
    /\ toks' = to_expr_tokens(src)
    /\ pc' = IF toks'.ok THEN "tokenized" ELSE "failed"
    /\ UNCHANGED <<src, ref, rpn, value>>
    /\ UNCHANGED <<ttvars, lexvars, parsevars>>

\* Expression::new, second half: shunting_yard
ShuntingYard ==
    /\ pc = "tokenized"
    /\ rpn' = shunting_yard(toks.out)
    /\ pc' = IF rpn'.ok THEN "compiled" ELSE "failed"
    /\ UNCHANGED <<src, ref, toks, value>>
    /\ UNCHANGED <<ttvars, lexvars, parsevars>>

\* Expression::fold_scope, called on a compiled expression up to twice
FoldScope ==
    /\ pc \in {"compiled", "folded"}
    /\ rpn' = Ok(fold_scope(rpn.out))
    /\ pc' = IF pc = "compiled" THEN "folded" ELSE "refolded"
    /\ UNCHANGED <<src, ref, toks, value>>
    /\ UNCHANGED <<ttvars, lexvars, parsevars>>

\* Expression::eval
EvalRpn ==
    /\ pc \in {"compiled", "folded", "refolded"}
    /\ value' = eval_rpn(rpn.out)
    /\ pc' = "evaluated"
    /\ UNCHANGED <<src, ref, toks, rpn>>
    /\ UNCHANGED <<ttvars, lexvars, parsevars>>

NextExpr ==
    \/ ToExprTokens
    \/ ShuntingYard
    \/ FoldScope
    \/ EvalRpn

SpecExpr == InitExpr /\ [][NextExpr]_vars

(***************************************************************************)
(* Claims about the expression engine, checked under SpecExpr.             *)
(***************************************************************************)

\* to_expr_tokens has returned Ok and shunting_yard has run on its result.
Shunted == toks.ok /\ pc \in {"compiled", "evaluated", "failed"}

\* A `-` of the slice q that stands after an operand: a binary minus.
MinusAfterOperand(q, i) ==
    i > 1 /\ (q[i - 1].t \in {"Const", "Ident"} \/ q[i - 1] = TParen(")"))
BinaryOnly(q) ==
    \A i \in 1..Len(q) :
        /\ q[i].t = "Operator" => num_args(OperatorOf(q[i].s)) = 2
        /\ q[i] = TOperator("-") => MinusAfterOperand(q, i)

\* C7: the postfix that shunting_yard produces for an infix expression over
\* constants and binary operators evaluates to the value of the parse by the
\* tiers, left to right within a tier, Exp right to left; 2 + 3 * 4 is 14,
\* (2 + 3) * 4 is 20 and 2 ^ 3 ^ 2 is 512.
C7_PrecedenceAndAssociativity ==
    (ref.known /\ BinaryOnly(src)) =>
        /\ pc # "failed"
        /\ pc = "evaluated" => value = EvalOk(ref.val)

C7_Witness ==
    pc = "evaluated" /\ src = Ex_2_exp_3_exp_2 /\ ref = Known(F32(512)) /\ value = EvalOk(F32(512))

IsNewline(tk) == tk.t # "Newline"
WithoutNewlines(q) == SelectSeq(q, IsNewline)
NoIdent(q) == \A i \in 1..Len(q) : q[i].t # "Ident"

\* C8: a `-` becomes Neg exactly when it is the first token or stands right
\* after an operator or `(`, every other `-` stays Sub and no other token
\* becomes Neg; -3 + 4 is 1, 2 * -3 is -6 and -(2+3) is -5.
C8_UnaryMinus ==
    /\ (toks.ok /\ pc # "new" /\ NoIdent(src)) =>
          LET q == WithoutNewlines(src)
              out == toks.out
          IN  /\ Len(out) = Len(q)
              /\ \A i \in 1..Len(q) :
                    IF q[i] = TOperator("-")
                    THEN IF i = 1 \/ q[i - 1].t = "Operator" \/ q[i - 1] = TParen("(")
                         THEN out[i] = Op("Neg")
                         ELSE out[i] = Op("Sub")
                    ELSE out[i] # Op("Neg")
    /\ (toks.ok /\ pc # "new" /\ src = <<TIdent("a"), TOperator("-"), TNum(3)>>) =>
          toks.out = <<Var(0), Op("Sub"), Value(F32(3))>>
    /\ (toks.ok /\ pc # "new"
          /\ src = <<TIdent("f"), TParen("("), TNum(2), TParen(")"), TOperator("-"), TNum(3)>>) =>
          toks.out = <<Fn("f", 4), Op("Sub"), Value(F32(3))>>
    /\ src \in {Ex_neg_3_plus_4, Ex_2_times_neg_3, Ex_neg_paren_2_plus_3} => pc # "failed"
    /\ (pc = "evaluated" /\ src = Ex_neg_3_plus_4) => value = EvalOk(F32(1))
    /\ (pc = "evaluated" /\ src = Ex_2_times_neg_3) => value = EvalOk(F32(-6))
    /\ (pc = "evaluated" /\ src = Ex_neg_paren_2_plus_3) => value = EvalOk(F32(-5))

C8_Witness ==
    /\ pc = "evaluated" /\ src = Ex_2_times_neg_3
    /\ toks.out = <<Value(F32(2)), Op("Mul"), Op("Neg"), Value(F32(3))>>
    /\ value = EvalOk(F32(-6))

\* Paren depth of the ExprTokens q after its first i tokens, and the right
\* parens that have no left paren to match.
ParenDepth(q, i) ==
    Cardinality({j \in 1..i : q[j].k = "LParen"}) - Cardinality({j \in 1..i : q[j].k = "RParen"})
UnmatchedRight(q) == {i \in 1..Len(q) : ParenDepth(q, i) < 0}
MinOf(S) == CHOOSE m \in S : \A n \in S : m <= n

\* C9: shunting_yard succeeds exactly when the parens are balanced; the first
\* `)` without a `(` gives "skewed right" at that token, a `(` left open gives
\* "skewed left" after the last token, and an error carries no output.
C9_ParenBalance ==
    Shunted =>
        LET q == toks.out IN
        /\ rpn.ok <=> (UnmatchedRight(q) = {} /\ ParenDepth(q, Len(q)) = 0)
        /\ UnmatchedRight(q) # {} =>
              rpn = Err("mismatched parens: skewed right", MinOf(UnmatchedRight(q)))
        /\ (UnmatchedRight(q) = {} /\ ParenDepth(q, Len(q)) > 0) =>
              rpn = Err("mismatched parens: skewed left", Len(q))
        /\ ~rpn.ok => rpn.out = <<>>

\* An unmatched `)` met while later tokens are still to come.
C9_Witness ==
    /\ Shunted /\ pc = "failed"
    /\ rpn.err = "mismatched parens: skewed right"
    /\ rpn.at < Len(toks.out)

\* A postfix sequence of values and operators; the height of the value stack
\* after its first i entries, as long as no operator ran short.
ValuesAndOperators(q) == \A i \in 1..Len(q) : q[i].k \in {"Value", "Op"}
Height(q, i) ==
    Cardinality({j \in 1..i : q[j].k = "Value"})
        - Cardinality({j \in 1..i : q[j].k = "Op" /\ num_args(q[j].op) = 2})
ShortAt(q) == {i \in 1..Len(q) : q[i].k = "Op" /\ Height(q, i - 1) < num_args(q[i].op)}
TooFew(q) == ShortAt(q) # {} \/ Height(q, Len(q)) < 1
TooMany(q) == ShortAt(q) = {} /\ Height(q, Len(q)) > 1

\* C10 as claimed: a number only when exactly one value is left, "zero values
\* in expression" for too few operands, "too many values in expression" for
\* too many.
C10_PostfixBalance_AsClaimed ==
    (pc = "evaluated" /\ ValuesAndOperators(rpn.out)) =>
        LET q == rpn.out IN
        /\ value.ok => (ShortAt(q) = {} /\ Height(q, Len(q)) = 1)
        /\ TooFew(q) => value = EvalErr("zero values in expression", "")
        /\ TooMany(q) => value = EvalErr("too many values in expression", "")

\* C10 amended: a number only when exactly one value is left; an operator that
\* finds fewer values than its arity gives "invalid expression: not enough
\* args for operator <op>", a walk that ends with no value "zero values in
\* expression" and one that ends with several "too many values in expression".
C10_PostfixBalance ==
    (pc = "evaluated" /\ ValuesAndOperators(rpn.out)) =>
        LET q == rpn.out IN
        /\ value.ok => (ShortAt(q) = {} /\ Height(q, Len(q)) = 1)
        /\ ShortAt(q) # {} =>
              value = EvalErr("invalid expression: not enough args for operator",
                              q[MinOf(ShortAt(q))].op)
        /\ (ShortAt(q) = {} /\ Height(q, Len(q)) = 0) =>
              value = EvalErr("zero values in expression", "")
        /\ TooMany(q) => value = EvalErr("too many values in expression", "")

\* A binary operator that finds one value only.
C10_Witness ==
    /\ pc = "evaluated" /\ ValuesAndOperators(rpn.out)
    /\ ShortAt(rpn.out) # {}
    /\ value.err = "invalid expression: not enough args for operator"

\* The sentinel for a truth value, and the truth tables of && || ^^.
Sentinel(b) == IF b THEN F32(1) ELSE F32(-1)
RefBool(l, x, y) ==
    CASE l = "&&" -> x /\ y
      [] l = "||" -> x \/ y
      [] l = "^^" -> x # y

\* C11: an operand counts as true exactly when it is > 0, whatever its value:
\* ! v is the true sentinel exactly when v > 0 is false, so ! 0 is true, and
\* a && b, a || b, a ^^ b are the true sentinel exactly when (a > 0) and, or,
\* xor (b > 0).
C11_TruthinessIsPositive ==
    pc = "evaluated" =>
        /\ \A v \in BoolOperands :
              src = <<TOperator("!")>> \o OperandSrc(v) =>
                  value = EvalOk(Sentinel(~(v > 0)))
        /\ \A l \in BoolLexemes, a \in BoolOperands, b \in BoolOperands :
              src = OperandSrc(a) \o <<TOperator(l)>> \o OperandSrc(b) =>
                  value = EvalOk(Sentinel(RefBool(l, a > 0, b > 0)))

\* The comparison a l b on numbers, and on a slice ( a l b ).
RefCmp(l, a, b) ==
    CASE l = "<" -> a < b
      [] l = ">" -> a > b
      [] l = "<=" -> a <= b
      [] l = ">=" -> a >= b
      [] l = "==" -> a = b
      [] l = "!=" -> a # b
      [] l = "~=" -> a = b
\* the whole number a constant holds
WholeOf(x) == (IF x.s = 1 THEN -1 ELSE 1) * x.m * 2^x.e
RefCmpOf(c) == RefCmp(c[3].s, WholeOf(c[2].v), WholeOf(c[4].v))

\* C12: a comparison or equality gives 1 or -1, 1 exactly when it holds; the
\* negation of such a result and two such results under && || ^^ follow the
\* truth tables and give 1 or -1 again.
C12_SentinelRoundTrip ==
    pc = "evaluated" =>
        /\ src \in Cmps =>
              /\ value \in {EvalOk(Sentinel(TRUE)), EvalOk(Sentinel(FALSE))}
              /\ value = EvalOk(Sentinel(TRUE)) <=> RefCmpOf(src)
        /\ (Len(src) = 6 /\ src[1] = TOperator("!") /\ SubSeq(src, 2, 6) \in Cmps) =>
              value = EvalOk(Sentinel(~RefCmpOf(SubSeq(src, 2, 6))))
        /\ (Len(src) = 11 /\ SubSeq(src, 1, 5) \in Cmps /\ SubSeq(src, 7, 11) \in Cmps
              /\ src[6].t = "Operator" /\ src[6].s \in BoolLexemes) =>
              value = EvalOk(Sentinel(RefBool(src[6].s, RefCmpOf(SubSeq(src, 1, 5)),
                                              RefCmpOf(SubSeq(src, 7, 11)))))

\* (1 < 2) ^^ (2 ~= 2) is false: both comparisons hold.
C12_Witness ==
    /\ pc = "evaluated"
    /\ src = CmpSrc("<", 1, 2) \o <<TOperator("^^")>> \o CmpSrc("~=", 2, 2)
    /\ rpn.out = <<Value(F32(1)), Value(F32(2)), Op("Less"), Value(F32(2)), Value(F32(2)), Op("ApproxEqu"), Op("Xor")>>
    /\ value = EvalOk(F32(-1))

\* C13: fold_scope replaces the Var entries whose slot the scope binds by the
\* Value bound, leaves every other entry and the order as they are, and a
\* second fold_scope in the same scope changes nothing.
C13_FoldScopeIdempotent ==
    [][FoldScope =>
          /\ rpn'.ok
          /\ Len(rpn'.out) = Len(rpn.out)
          /\ \A i \in 1..Len(rpn.out) :
                IF rpn.out[i].k = "Var" /\ get_var(rpn.out[i].n).some
                THEN rpn'.out[i] = Value(get_var(rpn.out[i].n).val)
                ELSE rpn'.out[i] = rpn.out[i]
          /\ pc = "folded" => rpn' = rpn]_vars

\* b * a + a folded twice: both a are values, b is still a variable.
C13_Witness ==
    /\ pc = "refolded"
    /\ toks.out = <<Var(1), Op("Mul"), Var(0), Op("Add"), Var(0)>>
    /\ rpn.out = <<Var(1), Value(F32(2)), Op("Mul"), Value(F32(2)), Op("Add")>>

\* left l right on small naturals, as f32 gives it: the quotient left / right
\* is the f32 nearest to it, and left % right is taken from that quotient.
RefBin(l, left, right) ==
    CASE l = "+" -> F32(left + right)
      [] l = "-" -> F32(left - right)
      [] l = "*" -> F32(left * right)
      [] l = "/" -> DivF(F32(left), F32(right))
      [] l = "^" -> F32(IF right = 0 THEN 1 ELSE left ^ right)
      [] l = "%" -> ModF(F32(left), F32(right))
      [] l \in CmpLexemes -> Sentinel(RefCmp(l, left, right))
      [] l \in BoolLexemes -> Sentinel(RefBool(l, left > 0, right > 0))

IsBinary(q) ==
    /\ Len(q) = 3
    /\ q[1].t = "Const" /\ q[3].t = "Const"
    /\ q[2].t = "Operator" /\ q[2].s \in BinLexemes

\* C20: for a op b the postfix is a b op, the value popped first is the right
\* operand and the one below it the left, and the result is a op b; for
\* - / % ^ < > <= >= it is never b op a.
C20_OperandOrder ==
    (pc = "evaluated" /\ IsBinary(src)) =>
        /\ rpn.out = <<Value(src[1].v), Value(src[3].v), Op(OperatorOf(src[2].s))>>
        /\ value = EvalOk(RefBin(src[2].s, WholeOf(src[1].v), WholeOf(src[3].v)))

\* 1 - 2 is -1 (2 - 1 is 1) and has been evaluated.
C20_Witness ==
    /\ pc = "evaluated"
    /\ src = <<TNum(1), TOperator("-"), TNum(2)>>
    /\ rpn.out = <<Value(F32(1)), Value(F32(2)), Op("Sub")>>
    /\ value = EvalOk(F32(-1))

\* The ( and the ) among the tokens a..b of q.
Opens(q, a, b) == Cardinality({k \in a..b : q[k] = TParen("(")})
Closes(q, a, b) == Cardinality({k \in a..b : q[k] = TParen(")")})
\* The ) that matches the ( after the identifier at i: the first token at
\* which as many ) as ( have passed; 0 when there is none.
Matching(q, i) ==
    LET J == {j \in (i + 1)..Len(q) : Opens(q, i + 1, j) = Closes(q, i + 1, j)}
    IN  IF J = {} THEN 0 ELSE MinOf(J)
\* Tokens that to_expr_tokens turns into one ExprToken each, unconditionally.
Plain(tk) == tk.t \in {"Const", "Paren"} \/ (tk.t = "Operator" /\ OperatorOf(tk.s) # "")
\* The identifier at i is followed by ( and is the first identifier of q,
\* so tokenization reaches it.
FirstCall(q, i) ==
    /\ i < Len(q)
    /\ q[i].t = "Ident"
    /\ q[i + 1] = TParen("(")
    /\ \A k \in 1..(i - 1) : Plain(q[k])
\* The ExprToken that stands for a plain token, a - taken as Sub or as Neg.
StandsFor(e, tk) ==
    CASE tk.t = "Const" -> e = Value(tk.v)
      [] tk = TParen("(") -> e = LParen
      [] tk = TParen(")") -> e = RParen
      [] tk.t = "Operator" ->
           e = Op(OperatorOf(tk.s)) \/ (tk.s = "-" /\ e = Op("Neg"))
      [] OTHER -> FALSE

\* C21: to_expr_tokens scans forward from an identifier that ( follows,
\* counting paren depth. Where the tokens end before the depth is back at
\* zero the result is "unexpected end of file in function call", whatever
\* the callee; where the depth comes back to zero and the callee is not a
\* function of the scope the result is "function ... appears in expression
\* but is not defined in scope"; otherwise the call is one Fn token whose
\* span runs from the identifier through the matching ), and tokenization
\* goes on at the token after that ).
C21_FunctionCallScan ==
    pc # "new" =>
        \A i \in 1..Len(src) :
            FirstCall(src, i) =>
                LET close == Matching(src, i) IN
                IF close = 0
                THEN toks = Err("unexpected end of file in function call", i)
                ELSE IF func_id(src[i].s) < 0
                THEN toks = Err("function appears in expression but is not defined in scope", i)
                ELSE /\ ~toks.ok => toks.at > close
                     /\ (\A k \in (close + 1)..Len(src) : Plain(src[k])) =>
                            /\ toks.ok
                            /\ Len(toks.out) = i + Len(src) - close
                            /\ \A k \in 1..(i - 1) : StandsFor(toks.out[k], src[k])
                            /\ toks.out[i] = Fn(src[i].s, close - i + 1)
                            /\ \A k \in (close + 1)..Len(src) :
                                   StandsFor(toks.out[i + k - close], src[k])

\* 2 - f ( ( ) ) -: the call spans the five tokens f ( ( ) ), and the -
\* after it is the next token taken
C21_Witness ==
    /\ pc = "tokenized"
    /\ src = <<TNum(2), TOperator("-"), TIdent("f"), TParen("("), TParen("("), TParen(")"),
               TParen(")"), TOperator("-")>>
    /\ toks = Ok(<<Value(F32(2)), Op("Sub"), Fn("f", 5), Op("Sub")>>)

\* A well-formed infix expression over constants: where an operand is due
\* stands a constant, a ( or a unary operator (- or !), after an operand a
\* binary operator or a ) that closes an open (, and the tokens end after an
\* operand with every ( closed.
RECURSIVE WellFormedFrom(_, _, _, _)
WellFormedFrom(q, i, due, depth) ==
    IF i > Len(q) THEN ~due /\ depth = 0
    ELSE LET tk == q[i] IN
         IF due
         THEN CASE tk.t = "Const" -> WellFormedFrom(q, i + 1, FALSE, depth)
                [] tk = TParen("(") -> WellFormedFrom(q, i + 1, TRUE, depth + 1)
                [] tk.t = "Operator" /\ tk.s \in UnaryLexemes ->
                     WellFormedFrom(q, i + 1, TRUE, depth)
                [] OTHER -> FALSE
         ELSE CASE tk = TParen(")") /\ depth > 0 -> WellFormedFrom(q, i + 1, FALSE, depth - 1)
                [] tk.t = "Operator" /\ OperatorOf(tk.s) \notin {"", "Not"} ->
                     WellFormedFrom(q, i + 1, TRUE, depth)
                [] OTHER -> FALSE
WellFormed(q) == WellFormedFrom(q, 1, TRUE, 0)

\* C22: for every well-formed infix expression, also where a unary operator
\* follows ^ or another unary operator (2 ^ -3, - -3, ! -1), shunting_yard
\* succeeds and puts each operator after all of its operands, and eval_rpn
\* returns a number: the value of the expression.
C22_UnaryInPostfix ==
    WellFormed(src) =>
        /\ pc # "failed"
        /\ pc \in {"compiled", "folded", "refolded", "evaluated"} =>
              (ShortAt(rpn.out) = {} /\ Height(rpn.out, Len(rpn.out)) = 1)
        /\ pc = "evaluated" =>
              (value.ok /\ (ref.known => value = EvalOk(ref.val)))

(***************************************************************************)
(* The lexer (interpreter/lexer.rs), specification SpecLex. A source text  *)
(* is a sequence of characters, each a string of its own; offsets and      *)
(* lengths count bytes, as the indices of a &str do.                       *)
(***************************************************************************)
\* A character that takes two bytes in UTF-8 (U+00E9).
EAcute == "U+00E9"
Utf8Len(c) == IF c = EAcute THEN 2 ELSE 1
RECURSIVE Bytes(_)
Bytes(w) == IF w = <<>> THEN 0 ELSE Utf8Len(Head(w)) + Bytes(Tail(w))
RECURSIVE Text(_)
Text(w) == IF w = <<>> THEN "" ELSE Head(w) \o Text(Tail(w))

Digits == {"0", "1", "2", "3", "4", "5", "6", "7", "8", "9"}
Letters ==
    {"a", "b", "c", "d", "e", "f", "g", "h", "i", "j", "k", "l", "m",
     "n", "o", "p", "q", "r", "s", "t", "u", "v", "w", "x", "y", "z",
     "A", "B", "C", "D", "E", "F", "G", "H", "I", "J", "K", "L", "M",
     "N", "O", "P", "Q", "R", "S", "T", "U", "V", "W", "X", "Y", "Z"}
IdentStart == Letters \cup {"_", "~", "'"}
IdentCont == IdentStart \cup Digits
Blanks == {" ", "\t"}
Newlines == {"\n", "\r"}
Punctuation == {".", ",", "=", ":", ";", "?", "(", ")", "{", "}", "]", "[", "\\"}
SingleOperators == {"+", "*", "/", "^", ">", "<", "!", "%", "-"}

StartsWith(w, p) == Len(w) >= Len(p) /\ SubSeq(w, 1, Len(p)) = p

\* The number of characters of w from index i on that lie in the class S,
\* up to the first one that does not; RunDot for the class `.`, every
\* character but "\n".
RECURSIVE Run(_, _, _)
Run(w, i, S) == IF i <= Len(w) /\ w[i] \in S THEN 1 + Run(w, i + 1, S) ELSE 0
RECURSIVE RunDot(_, _)
RunDot(w, i) == IF i <= Len(w) /\ w[i] # "\n" THEN 1 + RunDot(w, i + 1) ELSE 0

\* REGEX.find(walk) matched against Some((0, x)): the number of characters of
\* the match that starts at the first character of w, 0 when the leftmost
\* match starts further on or there is none. Alternatives are tried in the
\* order they are written and the first that matches is taken.
COMMENT_REGEX(w) == IF StartsWith(w, <<"/", "/">>) THEN 2 + RunDot(w, 3) ELSE 0
WHITESPACE_REGEX(w) == Run(w, 1, Blanks)
NEWLINE_REGEX(w) == IF w # <<>> /\ w[1] \in Newlines THEN 1 ELSE 0
SYMBOL_REGEX(w) ==
    IF StartsWith(w, <<"i", "f">>) THEN 2
    ELSE IF StartsWith(w, <<"e", "l", "s", "e">>) THEN 4
    ELSE IF w # <<>> /\ w[1] \in Punctuation THEN 1
    ELSE 0
IDENT_REGEX(w) == IF w # <<>> /\ w[1] \in IdentStart THEN Run(w, 1, IdentCont) ELSE 0

OPERATOR_REGEX(w) ==
    IF \E p \in {<<"^", "^">>, <<">", "=">>, <<"<", "=">>, <<"~", "=">>} : StartsWith(w, p)
    THEN 2
    ELSE IF w # <<>> /\ w[1] \in SingleOperators THEN 1
    ELSE IF \E p \in {<<"&", "&">>, <<"|", "|">>, <<"=", "=">>, <<"!", "=">>} : StartsWith(w, p)
    THEN 2
    ELSE 0

CONST_REGEX(w) ==
    LET d1 == Run(w, 1, Digits)
        mant == IF d1 >= 1
                THEN LET dot == IF d1 < Len(w) /\ w[d1 + 1] = "." THEN 1 ELSE 0
                     IN  d1 + dot + Run(w, d1 + dot + 1, Digits)
                ELSE IF w # <<>> /\ w[1] = "." /\ Run(w, 2, Digits) >= 1
                     THEN 1 + Run(w, 2, Digits)
                     ELSE 0
        exp == IF mant >= 1 /\ mant < Len(w) /\ w[mant + 1] \in {"e", "E"}
               THEN LET sgn == IF mant + 1 < Len(w) /\ w[mant + 2] = "-" THEN 1 ELSE 0
                        ds == Run(w, mant + 2 + sgn, Digits)
                    IN  IF ds >= 1 THEN 1 + sgn + ds ELSE 0
               ELSE 0
    IN  mant + exp

\* Symbol::parse
SymbolParse(s) ==
    CASE s = "." -> "Period"
      [] s = "," -> "Comma"
      [] s = "=" -> "Equals"
      [] s = ":" -> "Colon"
      [] s = ";" -> "Semicolon"
      [] s = "?" -> "QuestionMark"
      [] s = "\\" -> "Backslash"
      [] s = "if" -> "If"
      [] s = "else" -> "Else"
      [] s = "(" -> "LeftBracket(Round)"
      [] s = ")" -> "RightBracket(Round)"
      [] s = "{" -> "LeftBracket(Curly)"
      [] s = "}" -> "RightBracket(Curly)"
      [] s = "[" -> "LeftBracket(Square)"
      [] s = "]" -> "RightBracket(Square)"
      [] OTHER -> "None"

\* Operator::parse of the lexer
OperatorParse(s) ==
    CASE s = "+" -> "Add"
      [] s = "-" -> "Sub"
      [] s = "*" -> "Mul"
      [] s = "/" -> "Div"
      [] s = "^" -> "Exp"
      [] s = "%" -> "Mod"
      [] s = "==" -> "Equ"
      [] s = "!=" -> "NotEqu"
      [] s = "~=" -> "ApproxEqu"
      [] s = "<" -> "Less"
      [] s = ">" -> "Greater"
      [] s = "<=" -> "LessEqual"
      [] s = ">=" -> "GreaterEqual"
      [] s = "!" -> "Not"
      [] s = "&&" -> "And"
      [] s = "||" -> "Or"
      [] s = "^^" -> "Xor"
      [] OTHER -> "None"

\* str::parse::<f32> of a lexeme that CONST_REGEX matched: the number
\* num * 10^(-scale), num the digits of the mantissa and scale the count of
\* digits after the point less the exponent.
DigitSeq == <<"0", "1", "2", "3", "4", "5", "6", "7", "8", "9">>
DigitVal(c) == (CHOOSE i \in 1..10 : DigitSeq[i] = c) - 1
RECURSIVE Number(_)
Number(ds) ==
    IF ds = <<>> THEN 0 ELSE Number(SubSeq(ds, 1, Len(ds) - 1)) * 10 + DigitVal(ds[Len(ds)])
IsDigit(c) == c \in Digits
ParseFloat(w) ==
    LET es == {i \in 1..Len(w) : w[i] \in {"e", "E"}}
        mant == IF es = {} THEN w ELSE SubSeq(w, 1, (CHOOSE i \in es : TRUE) - 1)
        expo == IF es = {} THEN <<>> ELSE SubSeq(w, (CHOOSE i \in es : TRUE) + 1, Len(w))
        dots == {i \in 1..Len(mant) : mant[i] = "."}
        frac == IF dots = {} THEN 0 ELSE Len(mant) - (CHOOSE i \in dots : TRUE)
        e == IF expo # <<>> /\ expo[1] = "-" THEN 0 - Number(Tail(expo)) ELSE Number(expo)
    IN  [num |-> Number(SelectSeq(mant, IsDigit)), scale |-> frac - e]
NoNum == [num |-> 0, scale |-> 0]

\* PW<Token>: the variant, the Symbol or Operator it holds or the text of the
\* identifier (an Identifier of the IdMap stands for its text), the value of
\* a constant, and the position.
LTok(t, s, v, p) == [t |-> t, s |-> s, v |-> v, pos |-> p]
SymbolTok(w, p) == LTok("Symbol", SymbolParse(Text(w)), NoNum, p)
IdentTok(w, p) == LTok("Ident", Text(w), NoNum, p)
OperatorTok(w, p) == LTok("Operator", OperatorParse(Text(w)), NoNum, p)
ConstTok(w, p) == LTok("Const", "", ParseFloat(w), p)

\* SourcePos::add_chars, SourcePos::add_line
add_chars(p, num) == [p EXCEPT !.column = @ + num, !.index = @ + num]
add_line(p) ==
    [line |-> p.line + 1, column |-> 1, index |-> p.index + 1, line_index |-> p.index + 1]

Take(w, x) == SubSeq(w, 1, x)
Drop(w, x) == SubSeq(w, x + 1, Len(w))

\* The first of the checks of the loop body that finds a match at the start
\* of w, "none" when no check does.
FirstMatch(w) ==
    IF COMMENT_REGEX(w) > 0 THEN "comment"
    ELSE IF WHITESPACE_REGEX(w) > 0 THEN "whitespace"
    ELSE IF NEWLINE_REGEX(w) > 0 THEN "newline"
    ELSE IF SYMBOL_REGEX(w) > 0 THEN "symbol"
    ELSE IF IDENT_REGEX(w) > 0 THEN "ident"
    ELSE IF OPERATOR_REGEX(w) > 0 THEN "operator"
    ELSE IF CONST_REGEX(w) > 0 THEN "const"
    ELSE "none"

\* One more turn of the while loop of lex, taken by the check named.
Turn(check) ==
    /\ lexst = "lexing"
    /\ walk # <<>>
    /\ FirstMatch(walk) = check
    /\ UNCHANGED <<string, ttvars, exprvars, parsevars>>

\* walk = &walk[x..]; pos.add_chars(x), x the bytes of the first n characters
Consume(n) ==
    /\ walk' = Drop(walk, n)
    /\ pos' = add_chars(pos, Bytes(Take(walk, n)))

StripComment ==
    /\ Turn("comment")
    /\ Consume(COMMENT_REGEX(walk))
    /\ UNCHANGED <<lexed, issues, lexst>>

StripWhitespace ==
    /\ Turn("whitespace")
    /\ Consume(WHITESPACE_REGEX(walk))
    /\ UNCHANGED <<lexed, issues, lexst>>

StripNewline ==
    /\ Turn("newline")
    /\ walk' = Drop(walk, NEWLINE_REGEX(walk))
    /\ pos' = add_line(pos)
    /\ UNCHANGED <<lexed, issues, lexst>>

AddSymbol ==
    /\ Turn("symbol")
    /\ lexed' = Append(lexed, SymbolTok(Take(walk, SYMBOL_REGEX(walk)), pos))
    /\ Consume(SYMBOL_REGEX(walk))
    /\ UNCHANGED <<issues, lexst>>

AddIdent ==
    /\ Turn("ident")
    /\ lexed' = Append(lexed, IdentTok(Take(walk, IDENT_REGEX(walk)), pos))
    /\ Consume(IDENT_REGEX(walk))
    /\ UNCHANGED <<issues, lexst>>

AddOperator ==
    /\ Turn("operator")
    /\ lexed' = Append(lexed, OperatorTok(Take(walk, OPERATOR_REGEX(walk)), pos))
    /\ Consume(OPERATOR_REGEX(walk))
    /\ UNCHANGED <<issues, lexst>>

AddConst ==
    /\ Turn("const")
    /\ lexed' = Append(lexed, ConstTok(Take(walk, CONST_REGEX(walk)), pos))
    /\ Consume(CONST_REGEX(walk))
    /\ UNCHANGED <<issues, lexst>>

\* The end of the loop body: the issue is logged, then walk = &walk[1..],
\* which aborts when byte 1 lies inside the first character.
Unrecognized ==
    /\ Turn("none")
    /\ issues' = Append(issues, [pos |-> pos, level |-> "Error", msg |-> "unrecognized token"])
    /\ IF Utf8Len(walk[1]) = 1
       THEN Consume(1) /\ UNCHANGED lexst
       ELSE lexst' = "panic" /\ UNCHANGED <<walk, pos>>
    /\ UNCHANGED lexed

\* walk.len() = 0: Some(tokens)
LexReturn ==
    /\ lexst = "lexing"
    /\ walk = <<>>
    /\ lexst' = "done"
    /\ UNCHANGED <<string, walk, lexed, pos, issues, ttvars, exprvars, parsevars>>

\* The texts lexed: every text of up to MaxLen characters over LexChars, and
\* texts with keywords, exponents and comments.
MaxLen == 3
LexChars == {"^", ">", "<", "~", "&", "|", "=", "!", ".", "5", "a", " ", "\n", "/",
             "#", EAcute}
RECURSIVE Strings(_)
Strings(n) ==
    IF n = 0 THEN {<<>>}
    ELSE LET shorter == Strings(n - 1)
         IN  shorter \cup {Append(q, c) : q \in {q \in shorter : Len(q) = n - 1}, c \in LexChars}
LexExamples ==
    {<<"i", "f", "f", "y">>,
     <<"e", "l", "s", "e", "w", "h", "e", "r", "e">>,
     <<"e", "l", "s", "e", " ", "i", "f">>,
     <<"5", ".", "5", "e", "-", "1", "0", "+", "a">>,
     <<"1", "E", "2", "e">>,
     <<"a", "5", "'", "\t", "\r", "\n", "_">>,
     <<"/", "/", "a", EAcute, "\n", "5", "%", "(", "5", ")">>,
     <<"[", "f", " ", "a", ",", " ", "a", "]", " ", "a">>}

InitLex ==
    /\ TTInit
    /\ ExprIdle
    /\ ParseIdle
    /\ string \in Strings(MaxLen) \cup LexExamples
    /\ walk = string
    /\ lexed = <<>>
    /\ pos = NewPos
    /\ issues = <<>>
    /\ lexst = "lexing"

NextLex ==
    \/ StripComment
    \/ StripWhitespace
    \/ StripNewline
    \/ AddSymbol
    \/ AddIdent
    \/ AddOperator
    \/ AddConst
    \/ Unrecognized
    \/ LexReturn

SpecLex == InitLex /\ [][NextLex]_vars

(***************************************************************************)
(* Claims about the lexer, checked under SpecLex.                          *)
(***************************************************************************)

\* The two-character operators and the Operator each one stands for.
RefTwoChar(s) ==
    CASE s = "^^" -> "Xor"
      [] s = ">=" -> "GreaterEqual"
      [] s = "<=" -> "LessEqual"
      [] s = "~=" -> "ApproxEqu"
      [] s = "&&" -> "And"
      [] s = "||" -> "Or"
      [] s = "==" -> "Equ"
      [] s = "!=" -> "NotEqu"
      [] OTHER -> "None"

\* C14: where the text still to be lexed starts with one of ^^ >= <= ~= && ||
\* == !=, the next turn of the loop pushes exactly one token, the Operator of
\* that two-character kind at the current position, and moves on two bytes.
C14_TwoCharOperators ==
    [][(lexst = "lexing" /\ Len(walk) >= 2 /\ RefTwoChar(Text(Take(walk, 2))) # "None") =>
          /\ lexed' = Append(lexed, LTok("Operator", RefTwoChar(Text(Take(walk, 2))), NoNum, pos))
          /\ walk' = Drop(walk, 2)
          /\ pos'.index = pos.index + 2]_vars

\* C15: every turn of the loop leaves fewer bytes to lex and lex goes on, so
\* lex returns for every finite text; a turn at a byte where no pattern
\* matches logs exactly one Error "unrecognized token" at the current
\* position, pushes no token and moves on exactly one byte.
C15_LexTerminates ==
    [][(lexst = "lexing" /\ walk # <<>>) =>
          /\ Bytes(walk') < Bytes(walk)
          /\ lexst' = "lexing"
          /\ IF FirstMatch(walk) = "none"
             THEN /\ issues' = Append(issues, [pos |-> pos, level |-> "Error",
                                               msg |-> "unrecognized token"])
                  /\ Bytes(walk') = Bytes(walk) - 1
                  /\ pos'.index = pos.index + 1
                  /\ lexed' = lexed
             ELSE issues' = issues]_vars

\* C16: where the text still to be lexed starts with a point and a digit, as
\* .5 does, the next turn pushes one Const token that starts at the point
\* and takes the point and the digit with it.
C16_LeadingPointConstant ==
    [][(lexst = "lexing" /\ Len(walk) >= 2 /\ walk[1] = "." /\ walk[2] \in Digits) =>
          /\ Len(lexed') = Len(lexed) + 1
          /\ lexed'[Len(lexed')].t = "Const"
          /\ lexed'[Len(lexed')].pos = pos
          /\ Len(walk') <= Len(walk) - 2]_vars

\* The text still to be lexed starts where a run of identifier characters
\* starts: with a character an identifier may start with, at the start of
\* the text or after a character that is not an identifier character.
AtWord ==
    /\ lexst = "lexing"
    /\ walk # <<>>
    /\ walk[1] \in IdentStart
    /\ LET k == Len(string) - Len(walk) IN k = 0 \/ string[k] \notin IdentCont
WordLen == Run(walk, 1, IdentCont)
Word == Text(Take(walk, WordLen))

\* C23: where a maximal run of identifier characters is due, the next turn
\* takes the whole run as one token: the keyword symbol when the run is
\* exactly if or else, one Ident for the whole run otherwise, as for iffy
\* and elsewhere.
C23_KeywordsAreWholeWords ==
    [][AtWord =>
          /\ lexed' = Append(lexed,
                             IF Word = "if" THEN LTok("Symbol", "If", NoNum, pos)
                             ELSE IF Word = "else" THEN LTok("Symbol", "Else", NoNum, pos)
                             ELSE LTok("Ident", Word, NoNum, pos))
          /\ walk' = Drop(walk, WordLen)]_vars

(***************************************************************************)
(* The parsers of interpreter/functiondef.rs, specification SpecParse.     *)
(* A TokenStream is a sequence of positioned tokens and a cursor; the      *)
(* stream type itself, the expect macros and match_paren belong to         *)
(* interpreter/parser.rs.                                                  *)
(***************************************************************************)
\* A token of the stream: variant, the symbol, operator or identifier it
\* holds, the value of a constant, and the offset it stands at.
PTok(t, s, v) == [t |-> t, s |-> s, v |-> v, pos |-> 0]
PSymbol(s) == PTok("Symbol", s, 0)
PIdent(s) == PTok("Ident", s, 0)
PConst(v) == PTok("Const", "", v)
POperator(s) == PTok("Operator", s, 0)

\* The tokens of a text whose tokens are one byte long and one blank apart:
\* token i stands at offset 2 * (i - 1), the text ends at offset 2 * n - 1.
Positioned(q) == [i \in 1..Len(q) |-> [q[i] EXCEPT !.pos = 2 * (i - 1)]]
Unpositioned(tk) == [tk EXCEPT !.pos = 0]
end_source_pos(q) == IF q = <<>> THEN 0 ELSE 2 * Len(q) - 1

\* Results of a parser: Ok with the argument map and the statement, Err with
\* the message, the position it carries and the index of the token the
\* message shows (0 when it shows none: EOF), or an abort.
ParseOk(args, node) ==
    [ok |-> TRUE, panic |-> FALSE, err |-> "", at |-> 0, got |-> 0, args |-> args, node |-> node]
ParseErr(msg, at, got) ==
    [ok |-> FALSE, panic |-> FALSE, err |-> msg, at |-> at, got |-> got,
     args |-> EmptyMap, node |-> <<>>]
ParsePanic ==
    [ok |-> FALSE, panic |-> TRUE, err |-> "", at |-> 0, got |-> 0, args |-> EmptyMap, node |-> <<>>]
\* CompileError without a position
NoPosition == -1

\* expect! / expect_value! on the token at index i of q, None past hi: the
\* error for a token that is not the one expected.
Expected(msg, q, i, hi) ==
    IF i < hi THEN ParseErr(msg, q[i].pos, i) ELSE ParseErr(msg, end_source_pos(q), 0)
Is(q, i, hi, tk) == i < hi /\ Unpositioned(q[i]) = tk
IsA(q, i, hi, t) == i < hi /\ q[i].t = t

\* contains_key that never finds a key
contains_key_never(args, id) == FALSE

\* VecMap<Option<f32>>: a map from the Identifier of an argument to its
\* default, Some(val) or None. The map holds one entry for a key, whatever the
\* order the keys were inserted in; it is iterated in the order of its keys.
contains_key(args, id) == id \in DOMAIN args
insert(args, id, some, val) ==
    [k \in DOMAIN args \cup {id} |->
        IF k = id THEN [some |-> some, val |-> val] ELSE args[k]]
insert_none_if_absent(args, id) ==
    IF contains_key(args, id) THEN args ELSE insert(args, id, FALSE, 0)

\* Parser::parse for Expression on the tokens lo..hi-1 of q: Expression::new
\* on the slice, its tokens taken as the tokens to_expr_tokens reads: round
\* parentheses, brackets and braces are its Paren tokens, every other symbol is
\* a token it does not expect. An error of to_expr_tokens carries the position
\* of its token, one of shunting_yard carries none.
ExprTokenOf(tk) ==
    CASE tk.t = "Const" -> TNum(tk.v)
      [] tk.t = "Ident" -> TIdent(tk.s)
      [] tk.t = "Operator" -> TOperator(LexemeOf(tk.s))
      [] tk = [tk EXCEPT !.t = "Symbol", !.s = "LeftParen"] -> TParen("(")
      [] tk = [tk EXCEPT !.t = "Symbol", !.s = "RightParen"] -> TParen(")")
      [] tk = [tk EXCEPT !.t = "Symbol", !.s = "LeftBracket"] -> TParen("[")
      [] tk = [tk EXCEPT !.t = "Symbol", !.s = "RightBracket"] -> TParen("]")
      [] tk = [tk EXCEPT !.t = "Symbol", !.s = "LeftBrace"] -> TParen("{")
      [] tk = [tk EXCEPT !.t = "Symbol", !.s = "RightBrace"] -> TParen("}")
      [] tk = [tk EXCEPT !.t = "Symbol", !.s = "Comma"] -> TComma
      [] OTHER -> TSymbol(tk.s)
\* ExprNew is Expression::new on the result of to_expr_tokens; an error of
\* shunting_yard names no token.
ExprParse(q, lo, hi) ==
    LET ExprNew(r1) == IF r1.ok THEN [shunting_yard(r1.out) EXCEPT !.at = 0] ELSE r1
        ExprResult(r) ==
            IF r.ok THEN ParseOk(EmptyMap, <<"Expr", r.out>>)
            ELSE IF r.at # 0 THEN ParseErr(r.err, q[lo + r.at - 1].pos, lo + r.at - 1)
            ELSE ParseErr(r.err, NoPosition, 0)
    IN  ExprResult(ExprNew(to_expr_tokens([k \in 1..(hi - lo) |-> ExprTokenOf(q[lo + k - 1])])))

\* parser::match_paren on a stream that stands at the `{` at index i: the
\* index after the `}` that closes it, 0 when there is none before hi.
RECURSIVE MatchParen(_, _, _, _)
MatchParen(q, j, hi, depth) ==
    IF j >= hi THEN 0
    ELSE LET d == CASE Unpositioned(q[j]) = PSymbol("LeftBrace") -> depth + 1
                    [] Unpositioned(q[j]) = PSymbol("RightBrace") -> depth - 1
                    [] OTHER -> depth
         IN  IF d = 0 THEN j + 1 ELSE MatchParen(q, j + 1, hi, d)

\* The index of the first token from j to hi-1 that is one of the symbols of
\* S, 0 when there is none.
RECURSIVE FirstSymbol(_, _, _, _)
FirstSymbol(q, j, hi, S) ==
    IF j >= hi THEN 0
    ELSE IF q[j].t = "Symbol" /\ q[j].s \in S THEN j
    ELSE FirstSymbol(q, j + 1, hi, S)

\* Statement::parse on the tokens lo..hi-1 of q. BlockLoop is the loop over
\* the entries of a block, i the cursor; BlockEntry is the rest of the loop
\* body once the operator of the entry has been taken.
RECURSIVE StatementParse(_, _, _)
RECURSIVE BlockLoop(_, _, _, _)
RECURSIVE BlockEntry(_, _, _, _, _)
RECURSIVE Push(_, _, _, _, _, _, _)
RECURSIVE Scanned(_, _, _, _, _, _, _, _)
RECURSIVE ScanEnd(_, _, _, _, _, _, _)
RECURSIVE ScanFrom(_, _, _, _, _, _)

\* statements.push((condition, operator, statement)) and the next turn of the
\* loop, once the condition and the statement parsed
Push(condition, statement, q, next, hi, operator, statements) ==
    IF ~condition.ok THEN condition
    ELSE IF ~statement.ok THEN statement
    ELSE BlockLoop(q, next, hi, Append(statements, <<condition.node, operator, statement.node>>))

\* The entry once its end is known: j is where the scan started (0: the {
\* has no match), p the first ; or ? from there, e the ; that ends the
\* condition after a ? (0: none).
Scanned(j, p, e, q, start_pos, hi, operator, statements) ==
    IF j = 0 THEN ParseErr("unmatched {", end_source_pos(q), 0)
    ELSE IF p = 0
    THEN ParseErr("expected ; or ? to end expression, got EOF", end_source_pos(q), 0)
    ELSE IF q[p].s = "QuestionMark" /\ e = 0
    THEN ParseErr("expected ; to end condition, got EOF", end_source_pos(q), 0)
    ELSE Push(IF q[p].s = "QuestionMark" THEN ExprParse(q, p + 1, e) ELSE ParseOk(EmptyMap, <<>>),
              StatementParse(q, start_pos, p),
              q, (IF q[p].s = "QuestionMark" THEN e ELSE p) + 1, hi, operator, statements)

\* the scan for the ; that ends a condition
ScanEnd(j, p, q, start_pos, hi, operator, statements) ==
    Scanned(j, p, IF p = 0 THEN 0 ELSE FirstSymbol(q, p + 1, hi, {"Semicolon"}),
            q, start_pos, hi, operator, statements)

\* the scan for the ; or ? that ends the statement of the entry
ScanFrom(j, q, start_pos, hi, operator, statements) ==
    ScanEnd(j, IF j = 0 THEN 0 ELSE FirstSymbol(q, j, hi, {"Semicolon", "QuestionMark"}),
            q, start_pos, hi, operator, statements)

\* match_paren where the entry starts with {
BlockEntry(q, i, hi, operator, statements) ==
    ScanFrom(IF Is(q, i, hi, PSymbol("LeftBrace")) THEN MatchParen(q, i, hi, 0) ELSE i,
             q, i, hi, operator, statements)

BlockLoop(q, i, hi, statements) ==
    IF i >= hi
    THEN ParseErr("expected operator, ';' or }, got EOF", end_source_pos(q), 0)
    ELSE CASE q[i].t = "Operator" -> BlockEntry(q, i + 1, hi, q[i].s, statements)
           [] Is(q, i, hi, PSymbol("Semicolon")) -> BlockLoop(q, i + 1, hi, statements)
           [] Is(q, i, hi, PSymbol("RightBrace")) -> ParseOk(EmptyMap, <<"Block", statements>>)
           [] OTHER ->
                \* with_pos(tokens.peek(0).map(|x| x.pos).unwrap())
                IF i + 1 < hi
                THEN ParseErr("expected operator, ; or }", q[i + 1].pos, i)
                ELSE ParsePanic

StatementParse(q, lo, hi) ==
    IF Is(q, lo, hi, PSymbol("LeftBrace"))
    THEN BlockLoop(q, lo + 1, hi, <<>>)
    ELSE ExprParse(q, lo, hi)

\* FunctionDef::parse. ArgLoop is the loop over the arguments, i the cursor;
\* Separator is the match on the token that follows an argument or its
\* default, pos the position taken from the token after the argument name;
\* Body is the statement after the `]`.
RECURSIVE ArgLoop(_, _, _, _)
RECURSIVE Separator(_, _, _, _, _, _)

\* Parsed is def.set_statement(try!(..)); Ok(def): the FunctionDef returned is
\* its args and the node <<"FunctionDef", ident, statement>>.
Body(q, ident, i, args) ==
    LET Parsed(statement) ==
            IF ~statement.ok THEN statement
            ELSE ParseOk(args, <<"FunctionDef", ident, statement.node>>)
    IN  IF i > Len(q)
        THEN ParseErr("expected block, got EOF", end_source_pos(q), 0)
        ELSE Parsed(StatementParse(q, i, Len(q) + 1))

Separator(q, ident, k, pos_, args, arg_ident) ==
    LET hi == Len(q) + 1 IN
    IF k >= hi THEN ParseErr("expected =, , or ], got EOF", end_source_pos(q), 0)
    ELSE IF Is(q, k, hi, PSymbol("Comma"))
    THEN ArgLoop(q, ident, k + 1, insert_none_if_absent(args, arg_ident))
    ELSE IF Is(q, k, hi, PSymbol("RightBracket"))
    THEN Body(q, ident, k + 1, insert_none_if_absent(args, arg_ident))
    ELSE ParseErr("expected =, , or ]", pos_, k)

ArgLoop(q, ident, i, args) ==
    LET hi == Len(q) + 1
        has_default == Is(q, i + 1, hi, PSymbol("Equals"))
        neg == Is(q, i + 2, hi, POperator("Sub"))
        c == IF neg THEN i + 3 ELSE i + 2
    IN  IF Is(q, i, hi, PSymbol("RightBracket")) THEN Body(q, ident, i + 1, args)
        ELSE IF ~IsA(q, i, hi, "Ident") THEN Expected("expected argument name", q, i, hi)
        ELSE IF contains_key(args, q[i].s) THEN ParseErr("argument defined twice", q[i].pos, i)
        ELSE IF has_default /\ ~IsA(q, c, hi, "Const")
        THEN Expected("expected numerical constant", q, c, hi)
        ELSE Separator(q, ident,
                       IF has_default THEN c + 1 ELSE i + 1,
                       IF i + 1 < hi THEN q[i + 1].pos ELSE NoPosition,
                       IF has_default
                       THEN insert(args, q[i].s, TRUE, IF neg THEN 0 - q[c].v ELSE q[c].v)
                       ELSE args,
                       q[i].s)

FunctionDefParse(q) ==
    LET hi == Len(q) + 1 IN
    IF ~Is(q, 1, hi, PSymbol("LeftBracket")) THEN Expected("expected [", q, 1, hi)
    ELSE IF ~IsA(q, 2, hi, "Ident") THEN Expected("expected function name", q, 2, hi)
    ELSE ArgLoop(q, q[2].s, 3, EmptyMap)

ParseFunctionDef ==
    /\ ppc = "ready"
    /\ parsed' = FunctionDefParse(stream)
    /\ ppc' = "FunctionDef"
    /\ UNCHANGED <<stream, ttvars, exprvars, lexvars>>

ParseStatement ==
    /\ ppc = "ready"
    /\ parsed' = StatementParse(stream, 1, Len(stream) + 1)
    /\ ppc' = "Statement"
    /\ UNCHANGED <<stream, ttvars, exprvars, lexvars>>

\* The FunctionDef a caller holds is kept in parsed, as the one that
\* FunctionDef::parse returns: args is its argument map and node is
\* <<"FunctionDef", ident, statement>>, where the ident "" and the statement
\* <<>> stand for None. The caller holds the definition parse returned, or one
\* it made with FunctionDef::new, changed or not.
Holds == ppc \in {"FunctionDef", "new", "changed"} /\ parsed.ok

\* What a caller hands to the setters: an identifier, the key and the default
\* of an argument, a statement (the expression 5, and the block { + 5 ; }).
CallerIdents == {"g"}
CallerKeys == {"a", "c"}
CallerDefaults == {[some |-> FALSE, val |-> 0], [some |-> TRUE, val |-> 7]}
CallerStatements ==
    {<<"Expr", <<Value(F32(5))>>>>,
     <<"Block", << <<<<>>, "Add", <<"Expr", <<Value(F32(5))>>>>>> >> >>}

\* FunctionDef::new: no statement, no arguments, no identifier; no token
\* stream is parsed.
FunctionDefNew ==
    /\ ppc = "ready"
    /\ parsed' = ParseOk(EmptyMap, <<"FunctionDef", "", <<>>>>)
    /\ stream' = <<>>
    /\ ppc' = "new"
    /\ UNCHANGED <<ttvars, exprvars, lexvars>>

\* FunctionDef::set_ident
SetIdent ==
    /\ Holds
    /\ \E ident \in CallerIdents : parsed' = [parsed EXCEPT !.node[2] = ident]
    /\ ppc' = "changed"
    /\ UNCHANGED <<stream, ttvars, exprvars, lexvars>>

\* FunctionDef::set_statement
SetStatement ==
    /\ Holds
    /\ \E s \in CallerStatements : parsed' = [parsed EXCEPT !.node[3] = s]
    /\ ppc' = "changed"
    /\ UNCHANGED <<stream, ttvars, exprvars, lexvars>>

\* FunctionDef::statement_mut and an assignment through the reference it
\* returns; expect aborts when no statement is attached.
StatementMut ==
    /\ Holds
    /\ \E s \in CallerStatements :
          parsed' = IF parsed.node[3] = <<>> THEN ParsePanic
                    ELSE [parsed EXCEPT !.node[3] = s]
    /\ ppc' = "changed"
    /\ UNCHANGED <<stream, ttvars, exprvars, lexvars>>

\* FunctionDef::args_mut and a call through the reference it returns:
\* VecMap::insert of a default for a key, or VecMap::remove of a key.
ArgsMut ==
    /\ Holds
    /\ \E id \in CallerKeys :
          \/ \E d \in CallerDefaults :
                parsed' = [parsed EXCEPT !.args = insert(parsed.args, id, d.some, d.val)]
          \/ parsed' = [parsed EXCEPT !.args = [k \in DOMAIN parsed.args \ {id} |-> parsed.args[k]]]
    /\ ppc' = "changed"
    /\ UNCHANGED <<stream, ttvars, exprvars, lexvars>>

\* The token streams parsed: every stream of up to MaxStream tokens over
\* PAlphabet, and function definitions [ f args ] body with up to MaxArgs
\* arguments, with and without defaults, commas, the closing bracket and
\* well-formed bodies; the same argument lists in definitions [ a args ] a,
\* named like one of their arguments.
MaxStream == 3
MaxArgs == 3
PAlphabet ==
    {PSymbol("LeftBracket"), PSymbol("RightBracket"), PSymbol("Equals"), PSymbol("Comma"),
     PSymbol("LeftBrace"), PSymbol("RightBrace"), PSymbol("Semicolon"),
     PSymbol("QuestionMark"), PSymbol("LeftParen"), PSymbol("RightParen"),
     PIdent("f"), PIdent("a"), PIdent("b"), PConst(1),
     POperator("Sub"), POperator("Add")}
RECURSIVE Streams(_)
Streams(n) ==
    IF n = 0 THEN {<<>>}
    ELSE LET shorter == Streams(n - 1)
         IN  shorter \cup {Append(q, a) : q \in {q \in shorter : Len(q) = n - 1}, a \in PAlphabet}

ArgItems ==
    {<<PIdent("a")>>, <<PIdent("b")>>,
     <<PIdent("a"), PSymbol("Equals"), PConst(1)>>,
     <<PIdent("a"), PSymbol("Equals"), POperator("Sub"), PConst(1)>>,
     <<PIdent("b"), PSymbol("Equals"), PConst(1)>>}
ArgSeps == {<<PSymbol("Comma")>>, <<>>}
RECURSIVE ArgListsOf(_)
ArgListsOf(n) ==
    IF n = 0 THEN {<<>>}
    ELSE IF n = 1 THEN ArgItems
    ELSE {l \o sep \o item : l \in ArgListsOf(n - 1), sep \in ArgSeps, item \in ArgItems}
ArgLists == UNION {ArgListsOf(n) : n \in 0..MaxArgs}
Closers == {<<PSymbol("RightBracket")>>, <<>>}
Bodies ==
    {<<>>,
     <<PIdent("a")>>,
     <<PIdent("f")>>,
     <<PIdent("f"), PSymbol("LeftParen"), PConst(1), PSymbol("RightParen")>>,
     <<PSymbol("LeftParen"), PIdent("a"), POperator("Add"), PConst(1), PSymbol("RightParen"),
       POperator("Mul"), PIdent("a")>>,
     <<PSymbol("LeftBrace"), POperator("Add"), PSymbol("LeftParen"), PIdent("a"),
       PSymbol("RightParen"), PSymbol("Semicolon"), PSymbol("RightBrace")>>,
     <<PSymbol("LeftBrace"), POperator("Add"), PIdent("a"), PSymbol("Semicolon"),
       PSymbol("RightBrace")>>,
     <<PSymbol("LeftBrace"), PIdent("a"), PSymbol("Semicolon"), PSymbol("RightBrace")>>,
     <<PSymbol("LeftBrace"), PIdent("a")>>,
     <<PSymbol("LeftBrace"), POperator("Add"), PIdent("a"), PSymbol("QuestionMark"),
       PIdent("b"), PSymbol("Semicolon"), PSymbol("RightBrace")>>,
     <<PSymbol("LeftBrace"), POperator("Add"), PSymbol("LeftBrace"), POperator("Sub"),
       PIdent("a"), PSymbol("Semicolon"), PSymbol("RightBrace"), PSymbol("Semicolon"),
       PSymbol("RightBrace")>>,
     <<PSymbol("LeftBrace"), POperator("Add"), PSymbol("LeftBrace"), PIdent("a"),
       PSymbol("RightBrace"), PSymbol("Semicolon"), PSymbol("RightBrace")>>,
     <<PSymbol("LeftBrace"), POperator("Add"), PIdent("a")>>,
     <<PSymbol("LeftBrace"), POperator("Add"), PIdent("a"), PSymbol("QuestionMark"),
       PIdent("b")>>,
     <<PSymbol("LeftBrace"), POperator("Add"), PSymbol("LeftBrace"), PIdent("a"),
       PSymbol("Semicolon")>>,
     <<PSymbol("LeftBrace"), POperator("Add"), PSymbol("Semicolon"), PSymbol("RightBrace")>>}
Definition(name, l, c, b) == <<PSymbol("LeftBracket"), PIdent(name)>> \o l \o c \o b

InitParse ==
    /\ TTInit
    /\ ExprIdle
    /\ LexIdle
    /\ \/ \E q \in Streams(MaxStream) : stream = Positioned(q)
       \/ \E l \in ArgLists, c \in Closers, b \in Bodies :
             stream = Positioned(Definition("f", l, c, b))
       \/ \E l \in ArgLists, c \in Closers :
             stream = Positioned(Definition("a", l, c, <<PIdent("a")>>))
    /\ parsed = NoParse
    /\ ppc = "ready"

NextParse ==
    \/ ParseFunctionDef
    \/ ParseStatement
    \/ FunctionDefNew
    \/ SetIdent
    \/ SetStatement
    \/ StatementMut
    \/ ArgsMut

SpecParse == InitParse /\ [][NextParse]_vars

(***************************************************************************)
(* Claims about the parsers, checked under SpecParse.                      *)
(***************************************************************************)

\* The tokens i..j-1 of q are whole arguments, each with its comma:
\* a ,   a = 1 ,   a = - 1 ,
RECURSIVE WholeArgs(_, _, _)
WholeArgs(q, i, j) ==
    IF i >= j THEN i = j
    ELSE /\ q[i].t = "Ident"
         /\ \/ /\ i + 1 < j
               /\ Unpositioned(q[i + 1]) = PSymbol("Comma")
               /\ WholeArgs(q, i + 2, j)
            \/ /\ i + 3 < j
               /\ Unpositioned(q[i + 1]) = PSymbol("Equals")
               /\ q[i + 2].t = "Const"
               /\ Unpositioned(q[i + 3]) = PSymbol("Comma")
               /\ WholeArgs(q, i + 4, j)
            \/ /\ i + 4 < j
               /\ Unpositioned(q[i + 1]) = PSymbol("Equals")
               /\ Unpositioned(q[i + 2]) = POperator("Sub")
               /\ q[i + 3].t = "Const"
               /\ Unpositioned(q[i + 4]) = PSymbol("Comma")
               /\ WholeArgs(q, i + 5, j)

\* The identifiers among the tokens i..j-1 of q, in order.
NamesIn(q, i, j) ==
    LET ix == {k \in i..(j - 1) : q[k].t = "Ident"}
        nth(n) == CHOOSE k \in ix : Cardinality({m \in ix : m < k}) = n - 1
    IN  [n \in 1..Cardinality(ix) |-> q[nth(n)].s]
Distinct(names) == \A m, n \in 1..Len(names) : names[m] = names[n] => m = n
StartsDefinition(q) ==
    /\ Len(q) >= 2
    /\ Unpositioned(q[1]) = PSymbol("LeftBracket")
    /\ q[2].t = "Ident"

\* The default the argument named at token i of q is given: = c, = - c, or
\* none.
DefaultIn(q, i) ==
    IF i + 2 <= Len(q) /\ Unpositioned(q[i + 1]) = PSymbol("Equals") /\ q[i + 2].t = "Const"
    THEN [some |-> TRUE, val |-> q[i + 2].v]
    ELSE IF /\ i + 3 <= Len(q)
            /\ Unpositioned(q[i + 1]) = PSymbol("Equals")
            /\ Unpositioned(q[i + 2]) = POperator("Sub")
            /\ q[i + 3].t = "Const"
    THEN [some |-> TRUE, val |-> 0 - q[i + 3].v]
    ELSE [some |-> FALSE, val |-> 0]

\* C17: where the argument list of [ name args ] repeats an identifier, with
\* or without defaults, after any number of distinct arguments,
\* FunctionDef::parse returns "argument ... defined twice" at the position of
\* the second occurrence; a definition that parses has the identifiers of its
\* list as its arguments, each once and with the default it is given there.
C17_DuplicateArgument ==
    (ppc = "FunctionDef" /\ StartsDefinition(stream)) =>
        /\ \A j \in 3..Len(stream) :
              (/\ WholeArgs(stream, 3, j)
               /\ stream[j].t = "Ident"
               /\ Distinct(NamesIn(stream, 3, j))
               /\ ~Distinct(NamesIn(stream, 3, j + 1))) =>
                  parsed = ParseErr("argument defined twice", stream[j].pos, j)
        /\ parsed.ok =>
              LET close == FirstSymbol(stream, 3, Len(stream) + 1, {"RightBracket"})
                  names == NamesIn(stream, 3, close)
              IN  /\ close # 0
                  /\ Distinct(names)
                  /\ DOMAIN parsed.args = {names[n] : n \in 1..Len(names)}
                  /\ \A i \in 3..(close - 1) :
                        stream[i].t = "Ident" => parsed.args[stream[i].s] = DefaultIn(stream, i)

\* [ f a , b = 1 , a ] a: the third argument repeats the first
C17_Witness ==
    /\ ppc = "FunctionDef"
    /\ stream = Positioned(<<PSymbol("LeftBracket"), PIdent("f"), PIdent("a"), PSymbol("Comma"),
                             PIdent("b"), PSymbol("Equals"), PConst(1), PSymbol("Comma"),
                             PIdent("a"), PSymbol("RightBracket"), PIdent("a")>>)
    /\ parsed = ParseErr("argument defined twice", 16, 9)

\* The messages of the errors that FunctionDef::parse and Statement::parse
\* make themselves; the errors of match_paren and of the expression parser
\* pass through them unchanged.
ParserMessages ==
    {"expected [", "expected function name", "expected argument name",
     "argument defined twice", "expected numerical constant",
     "expected =, , or ]", "expected =, , or ], got EOF", "expected block, got EOF",
     "expected operator, ; or }", "expected operator, ';' or }, got EOF",
     "expected ; to end condition, got EOF", "expected ; or ? to end expression, got EOF"}

\* C18: no run of FunctionDef::parse or Statement::parse aborts, and an
\* error of theirs carries the position of the token its message shows, or
\* the end-of-source position when the tokens ran out; so for [ f a = 1 b ]
\* and for a block entry that starts with a wrong token.
C18_ErrorPositions ==
    ppc \in {"FunctionDef", "Statement"} =>
        /\ ~parsed.panic
        /\ (~parsed.ok /\ parsed.err \in ParserMessages) =>
              parsed.at = IF parsed.got = 0 THEN end_source_pos(stream)
                          ELSE stream[parsed.got].pos

====
